---- MODULE Spec2Model ----
(***************************************************************************)
(* Garage CO2 monitor: the sampling loop and its history ring buffers      *)
(* (src/src/main.cpp), the SCD4x sensor wrapper (src/src/CO2Sensor.cpp)    *)
(* and the e-paper display class.  The repository holds two copies of the  *)
(* display class: src/unnamed/part_001 (bounded busy wait, mini charts)    *)
(* and src/src/Display.cpp (the earlier copy).  The variable `variant`     *)
(* says which copy is linked into the build.                               *)
(*                                                                         *)
(* Temperatures and humidities are floats in the source; they are held     *)
(* here in tenths of a unit.                                               *)
(*                                                                         *)
(* Ten specifications share the state:                                     *)
(*   Spec         setup() and loop() with a sensor that may fail, be not   *)
(*                ready or deliver any of a few readings                   *)
(*   SpecReconnect the same program, fairly scheduled, with a sensor whose *)
(*                I2C operations all succeed from some time on             *)
(*   SpecHistory  the same program with a sensor that always answers and   *)
(*                whose CO2 level rises, long enough to wrap the ring      *)
(*   SpecChart    Display::updateFull and updateChart on histories of      *)
(*                chosen values, drawn twice                               *)
(*   SpecRedraw   updateFull and updateChart with history appends between  *)
(*                them, the chart area followed stroke by stroke           *)
(*   SpecPixel    Display::drawPixel on a cleared framebuffer              *)
(*   SpecPanel    the panel driver, one bus byte or busy poll per step     *)
(*   SpecSleep    the panel driver with refreshes after sleep()            *)
(*   SpecWrap     loop(), and update() with its busy wait, while millis()  *)
(*                wraps from 2^32 - 1 to 0                                 *)
(*   SpecPrim     drawFastHLine, drawFastVLine, fillRect and drawRect, one *)
(*                loop test per step, the processor never stopping         *)
(* setup() and loop() see the display through what updateFull draws        *)
(* (`rendered`); the bytes the driver sends for it are SpecPanel's matter.  *)
(* An iteration of loop() is taken to last its delay(1000).  checkAlarm    *)
(* reads millis() again, after the sensor exchange: what it reads is       *)
(* loop's currentTime or a little later.                                   *)
(***************************************************************************)
EXTENDS Integers, Sequences, FiniteSets, TLC

(* ------------------------------------------------------------------ *)
(* Program constants                                                  *)
(* ------------------------------------------------------------------ *)
DATA_HISTORY_SIZE == 48
MINI_HISTORY_SIZE == 12
CO2_ALARM_THRESHOLD == 1000
BUZZER_INTERVAL == 600000
CO2_THRESHOLD == 50
TEMP_THRESHOLD == 5
HUM_THRESHOLD == 20
DATA_INTERVAL == 30000
HISTORY_INTERVAL == 300000
FULL_REFRESH_INTERVAL == 21600000
BUZZER_ON_TIME == 5000
LOOP_DELAY == 1000
MIN_VALID_READINGS == 3
MAX_VALID_READING_COUNT == 5
DEFAULT_CO2 == 400
DEFAULT_TEMPERATURE == 200
DEFAULT_HUMIDITY == 500
WIDTH == 648
HEIGHT == 480

(* ------------------------------------------------------------------ *)
(* Bounds of the model                                                *)
(* ------------------------------------------------------------------ *)
\* millis() when setup() returns, in seconds
SetupSeconds == 20
\* horizon of the program under the full sensor environment, in sensor ticks of 30 s
MaxTicks == 11
\* horizon of the program under the ramp environment, in minutes
MaxRampMinutes == 260
\* the sensor tick from which no I2C operation fails any more in the healing environment,
\* and the horizon of the program under that environment, in sensor ticks
HealTicks == 3
MaxHealTicks == 6
\* the program near the wrap of millis(): the seconds before the wrap at which the run
\* starts, the seconds after the start at which the history append and the forced refresh
\* fall due, and the horizon after the wrap in sensor ticks
WrapLeadSeconds == 45
WrapDueSeconds == 59
WrapTicks == 4

(* ------------------------------------------------------------------ *)
(* Machine arithmetic                                                 *)
(* ------------------------------------------------------------------ *)
\* unsigned long (32 bit) wrap-around
MaxInt32 == 32768 * 65535 + 32767

\* An unsigned long is kept as the 32-bit two's complement integer with the same bits:
\* u < 2^31 as u itself, u >= 2^31 as u - 2^32.  The operators below are addition,
\* subtraction and comparison modulo 2^32 on that representation.
U32Add(a, k) ==
    IF a > MaxInt32 - k THEN (a - MaxInt32 - 1) + (k - MaxInt32 - 1) ELSE a + k

U32Sub(a, b) ==
    IF (a >= 0) = (b >= 0) THEN a - b
    ELSE IF a >= 0
    THEN (IF a <= MaxInt32 + b THEN a - b ELSE (a - MaxInt32 - 1) - (b + MaxInt32 + 1))
    ELSE (IF a >= b - MaxInt32 - 1 THEN a - b ELSE (a + MaxInt32 + 1) - (b - MaxInt32 - 1))

\* d >= c for an unsigned long d and a constant 0 <= c < 2^31
U32AtLeast(d, c) == d < 0 \/ d >= c

\* uint16_t wrap-around on assignment
U16(x) == x % 65536

\* C integer division truncates toward zero
TruncDiv(a, b) ==
    IF (a >= 0) = (b > 0) THEN (IF a >= 0 THEN a ELSE -a) \div (IF b > 0 THEN b ELSE -b)
    ELSE -((IF a >= 0 THEN a ELSE -a) \div (IF b > 0 THEN b ELSE -b))

\* C remainder has the sign of the dividend
TruncMod(a, b) == a - b * TruncDiv(a, b)

getMin(a, b) == IF a < b THEN a ELSE b

getMax(a, b) == IF a > b THEN a ELSE b

Abs(x) == IF x < 0 THEN -x ELSE x

constrain(x, lo, hi) == IF x < lo THEN lo ELSE IF x > hi THEN hi ELSE x

\* Arduino map(): (x - in_min) * (out_max - out_min) / (in_max - in_min) + out_min.
\* A zero input span is a division by zero; `div0` reports it.
ArduinoMap(x, in_min, in_max, out_min, out_max) ==
    IF in_max = in_min
    THEN [div0 |-> TRUE, value |-> 0]
    ELSE [div0 |-> FALSE,
          value |-> TruncDiv((x - in_min) * (out_max - out_min), in_max - in_min) + out_min]

(* ------------------------------------------------------------------ *)
(* State                                                              *)
(* ------------------------------------------------------------------ *)
VARIABLES
    variant,                \* which copy of the display class is built in
    env,                    \* the environment of the run: "full", "heal", "wrap", "ramp", "chart",
                            \* "pixel", "panel", "sleep", "prim"
    pc,                     \* position of the program: "boot" before setup(), then "loop";
                            \* "chart"/"drawn" and "panel" when the display class runs alone
    now,                    \* millis() at the start of the next loop() iteration
    co2Sensor,              \* CO2Sensor: _connected, _validReadingCount, _currentData
    currentData,            \* main.cpp globals
    lastDisplayedData,
    co2History,
    historyIndex,
    temperatureHistory,
    humidityHistory,
    miniHistoryIndex,
    miniHistoryCount,
    lastFullUpdateTime,
    lastDataUpdateTime,
    lastHistoryUpdateTime,
    lastBuzzerTime,
    buzzerActive,
    rendered,               \* what the last updateFull()/updateChart() drew
    appended,               \* history of the run: every sample appended so far, and when
    readRun,                \* history of the run: valid readings in a row (counted to 3)
    validsSinceInit,        \* history of the run: valid readings since begin()/last read error (to 3)
    lastIter,               \* history of the run: what the last step did
    buffer,                 \* Display::_buffer, the framebuffer
    panel                   \* the panel driver: pins, position in the running function, bus

progVars == <<pc, now, co2Sensor, currentData, lastDisplayedData, co2History, historyIndex,
              temperatureHistory, humidityHistory, miniHistoryIndex, miniHistoryCount,
              lastFullUpdateTime, lastDataUpdateTime, lastHistoryUpdateTime, lastBuzzerTime,
              buzzerActive, rendered, appended, readRun, validsSinceInit, lastIter>>

panelVars == <<buffer, panel>>

vars == <<variant, env, progVars, panelVars>>

Variants == {"part_001", "Display.cpp"}

(* ------------------------------------------------------------------ *)
(* CO2Sensor                                                          *)
(* ------------------------------------------------------------------ *)
SensorData(co2, temperature, humidity) ==
    [co2 |-> co2, temperature |-> temperature, humidity |-> humidity]

\* CO2Sensor::CO2Sensor
SensorNew ==
    [connected |-> FALSE, validReadingCount |-> 0,
     data |-> SensorData(DEFAULT_CO2, DEFAULT_TEMPERATURE, DEFAULT_HUMIDITY)]

\* CO2Sensor::begin; io says which of the I2C commands succeed
SensorBegin(s, io) ==
    IF ~io.check THEN [s EXCEPT !.connected = FALSE]
    ELSE IF ~io.stop THEN [s EXCEPT !.connected = FALSE]
    ELSE IF ~io.start THEN [s EXCEPT !.connected = FALSE]
    ELSE [s EXCEPT !.connected = TRUE, !.validReadingCount = 0]

\* a variant of CO2Sensor::reset that stops the measurement and does not call begin()
SensorResetStopOnly(s, io) == s

\* CO2Sensor::reset, as called by tryReconnectSensor
SensorReset(s, io) ==
    IF ~io.stop0 THEN s ELSE SensorBegin(s, io)

\* a variant of CO2Sensor::update that counts a CO2 = 0 reading as a valid one
SensorUpdateCountingInvalid(s, io) ==
    IF ~s.connected THEN [sensor |-> s, updated |-> FALSE]
    ELSE IF io.kind \in {"flag_error", "read_error"}
    THEN [sensor |-> [s EXCEPT !.connected = FALSE, !.validReadingCount = 0], updated |-> FALSE]
    ELSE IF io.kind = "not_ready" THEN [sensor |-> s, updated |-> FALSE]
    ELSE [sensor |-> [s EXCEPT !.data = IF io.co2 = 0 THEN @
                                        ELSE SensorData(io.co2, io.temperature, io.humidity),
                               !.validReadingCount =
                                   IF @ < MAX_VALID_READING_COUNT THEN @ + 1 ELSE @],
          updated |-> io.co2 # 0]

\* a variant of CO2Sensor::update without the co2 == 0 test
SensorUpdateAcceptingZero(s, io) ==
    IF ~s.connected THEN [sensor |-> s, updated |-> FALSE]
    ELSE IF io.kind \in {"flag_error", "read_error"}
    THEN [sensor |-> [s EXCEPT !.connected = FALSE, !.validReadingCount = 0], updated |-> FALSE]
    ELSE IF io.kind = "not_ready" THEN [sensor |-> s, updated |-> FALSE]
    ELSE [sensor |-> [s EXCEPT !.data = SensorData(io.co2, io.temperature, io.humidity),
                               !.validReadingCount =
                                   IF @ < MAX_VALID_READING_COUNT THEN @ + 1 ELSE @],
          updated |-> TRUE]

\* CO2Sensor::update; io is what the two I2C reads deliver
SensorUpdate(s, io) ==
    IF ~s.connected THEN [sensor |-> s, updated |-> FALSE]
    ELSE IF io.kind = "flag_error"
    THEN [sensor |-> [s EXCEPT !.connected = FALSE, !.validReadingCount = 0], updated |-> FALSE]
    ELSE IF io.kind = "not_ready" THEN [sensor |-> s, updated |-> FALSE]
    ELSE IF io.kind = "read_error"
    THEN [sensor |-> [s EXCEPT !.connected = FALSE, !.validReadingCount = 0], updated |-> FALSE]
    ELSE IF io.co2 = 0 THEN [sensor |-> s, updated |-> FALSE]
    ELSE [sensor |-> [s EXCEPT !.data = SensorData(io.co2, io.temperature, io.humidity),
                               !.validReadingCount =
                                   IF @ < MAX_VALID_READING_COUNT THEN @ + 1 ELSE @],
          updated |-> TRUE]

(* ------------------------------------------------------------------ *)
(* History store (main.cpp)                                           *)
(* ------------------------------------------------------------------ *)
\* the six history globals as one record
HistoryNow ==
    [co2 |-> co2History, index |-> historyIndex,
     temperature |-> temperatureHistory, humidity |-> humidityHistory,
     miniIndex |-> miniHistoryIndex, miniCount |-> miniHistoryCount]

\* the gate of updateHistory() and of loop()
GateOpen(s) == s.validReadingCount >= MIN_VALID_READINGS

\* a variant of updateHistory() that advances the cursor before it writes
updateHistoryAdvanceFirst(h, s, data) ==
    IF GateOpen(s)
    THEN [co2 |-> [h.co2 EXCEPT ![(h.index + 1) % DATA_HISTORY_SIZE] = data.co2],
          index |-> (h.index + 1) % DATA_HISTORY_SIZE,
          temperature |-> [h.temperature EXCEPT ![h.miniIndex] = data.temperature],
          humidity |-> [h.humidity EXCEPT ![h.miniIndex] = data.humidity],
          miniIndex |-> (h.miniIndex + 1) % MINI_HISTORY_SIZE,
          miniCount |-> IF h.miniCount < MINI_HISTORY_SIZE THEN h.miniCount + 1 ELSE h.miniCount]
    ELSE h

\* a variant of updateHistory() that leaves miniHistoryCount as it is
updateHistoryNotCounting(h, s, data) ==
    IF GateOpen(s)
    THEN [co2 |-> [h.co2 EXCEPT ![h.index] = data.co2],
          index |-> (h.index + 1) % DATA_HISTORY_SIZE,
          temperature |-> [h.temperature EXCEPT ![h.miniIndex] = data.temperature],
          humidity |-> [h.humidity EXCEPT ![h.miniIndex] = data.humidity],
          miniIndex |-> (h.miniIndex + 1) % MINI_HISTORY_SIZE,
          miniCount |-> h.miniCount]
    ELSE h

\* updateHistory()
updateHistory(h, s, data) ==
    IF GateOpen(s)
    THEN [co2 |-> [h.co2 EXCEPT ![h.index] = data.co2],
          index |-> (h.index + 1) % DATA_HISTORY_SIZE,
          temperature |-> [h.temperature EXCEPT ![h.miniIndex] = data.temperature],
          humidity |-> [h.humidity EXCEPT ![h.miniIndex] = data.humidity],
          miniIndex |-> (h.miniIndex + 1) % MINI_HISTORY_SIZE,
          miniCount |-> IF h.miniCount < MINI_HISTORY_SIZE THEN h.miniCount + 1 ELSE h.miniCount]
    ELSE h

\* significantChange()
significantChange(cur, last) ==
    \/ Abs(cur.co2 - last.co2) >= CO2_THRESHOLD
    \/ Abs(cur.temperature - last.temperature) >= TEMP_THRESHOLD
    \/ Abs(cur.humidity - last.humidity) >= HUM_THRESHOLD

(* ------------------------------------------------------------------ *)
(* Chart renderer (Display::drawBarChart, Display::drawCO2MiniChart)  *)
(* ------------------------------------------------------------------ *)
\* drawBarChart: chartY
ChartY(v) == IF v = "part_001" THEN 320 ELSE 220

\* drawBarChart: the scan for the minimum and maximum of the valid entries
\* the least and the greatest element of a set of numbers: what folding getMin and
\* getMax over its elements leaves
SetMin(S) == CHOOSE x \in S : \A y \in S : x <= y

SetMax(S) == CHOOSE x \in S : \A y \in S : x >= y

\* drawBarChart: the scan of the whole history for its least and greatest valid reading,
\* minCO2 starting at 10000 and maxCO2 at 0
ScanRange(h) ==
    LET valid == {h[i] : i \in 0..(DATA_HISTORY_SIZE - 1)} \ {0}
    IN  [min |-> SetMin(valid \cup {10000}), max |-> SetMax(valid \cup {0}),
         has |-> valid # {}]

\* a variant of the axis range without the case of a history with no valid entry
BarChartRangeNoEmptyCase(v, h) ==
    LET s0 == ScanRange(h)
        s1 == [min |-> s0.min, max |-> s0.max]
        avg == U16((s1.max + s1.min) \div 2)
        s2 == IF s1.max - s1.min < 500
              THEN [min |-> U16(getMax(0, avg - 250)), max |-> U16(avg + 250)]
              ELSE s1
        s3 == [min |-> U16(getMax(0, s2.min)), max |-> U16(getMax(1000, s2.max))]
        s4 == IF v = "part_001" /\ s3.max <= s3.min
              THEN [s3 EXCEPT !.max = U16(s3.min + 500)]
              ELSE s3
    IN  [lo |-> U16((s4.min \div 100) * 100),
         hi |-> U16(((s4.max + 99) \div 100) * 100),
         hasValidData |-> s0.has,
         dataMin |-> s0.min, dataMax |-> s0.max]

\* a variant of the axis range that does not raise maxCO2 to 1000
BarChartRangeNoFloor(v, h) ==
    LET s0 == ScanRange(h)
        s1 == IF ~s0.has THEN [min |-> 400, max |-> 1000]
              ELSE [min |-> s0.min, max |-> s0.max]
        avg == U16((s1.max + s1.min) \div 2)
        s2 == IF s1.max - s1.min < 500
              THEN [min |-> U16(getMax(0, avg - 250)), max |-> U16(avg + 250)]
              ELSE s1
        s4 == IF v = "part_001" /\ s2.max <= s2.min
              THEN [s2 EXCEPT !.max = U16(s2.min + 500)]
              ELSE s2
    IN  [lo |-> U16((s4.min \div 100) * 100),
         hi |-> U16(((s4.max + 99) \div 100) * 100),
         hasValidData |-> s0.has,
         dataMin |-> s0.min, dataMax |-> s0.max]

\* drawBarChart: the axis range, in the uint16_t variables minCO2 and maxCO2
BarChartRange(v, h) ==
    LET s0 == ScanRange(h)
        s1 == IF ~s0.has THEN [min |-> 400, max |-> 1000]
              ELSE [min |-> s0.min, max |-> s0.max]
        avg == U16((s1.max + s1.min) \div 2)
        s2 == IF s1.max - s1.min < 500
              THEN [min |-> U16(getMax(0, avg - 250)), max |-> U16(avg + 250)]
              ELSE s1
        s3 == [min |-> U16(getMax(0, s2.min)), max |-> U16(getMax(1000, s2.max))]
        s4 == IF v = "part_001" /\ s3.max <= s3.min
              THEN [s3 EXCEPT !.max = U16(s3.min + 500)]
              ELSE s3
    IN  [lo |-> U16((s4.min \div 100) * 100),
         hi |-> U16(((s4.max + 99) \div 100) * 100),
         hasValidData |-> s0.has,
         dataMin |-> s0.min, dataMax |-> s0.max]

\* a variant of the bar test that leaves a bar at exactly the threshold filled
BarKindAbove(value) == IF value > CO2_ALARM_THRESHOLD THEN "hollow" ELSE "filled"

\* drawBarChart: hollow at or above the alarm threshold
BarKind(value) == IF value >= CO2_ALARM_THRESHOLD THEN "hollow" ELSE "filled"

\* drawBarChart: the slot bar i reads
BarSlot(index, i) == TruncMod(index - i + DATA_HISTORY_SIZE, DATA_HISTORY_SIZE)

\* drawBarChart: bar i of the walk "from newest to oldest"
BarChartBar(h, index, range, i) ==
    LET idx == BarSlot(index, i)
        value == h[idx]
        m == ArduinoMap(value, range.lo, range.hi, 5, 160 - 10)
    IN  IF value > 0
        THEN [i |-> i, idx |-> idx, value |-> value, kind |-> BarKind(value),
              height |-> constrain(m.value, 5, 160 - 10), div0 |-> m.div0]
        ELSE [i |-> i, idx |-> idx, value |-> value, kind |-> "placeholder",
              height |-> 5, div0 |-> FALSE]

\* drawBarChart: the dashed alarm line
ThresholdLine(v, range) ==
    IF CO2_ALARM_THRESHOLD >= range.lo /\ CO2_ALARM_THRESHOLD <= range.hi
    THEN LET m == ArduinoMap(CO2_ALARM_THRESHOLD, range.lo, range.hi,
                             ChartY(v) + 160 - 5, ChartY(v) + 5)
         IN  [drawn |-> TRUE, y |-> m.value, div0 |-> m.div0]
    ELSE [drawn |-> FALSE, y |-> 0, div0 |-> FALSE]

\* Display::drawBarChart
drawBarChart(v, h, index) ==
    LET range == BarChartRange(v, h)
    IN  [lo |-> range.lo, hi |-> range.hi, hasValidData |-> range.hasValidData,
         line |-> ThresholdLine(v, range),
         bars |-> [k \in 1..DATA_HISTORY_SIZE |-> BarChartBar(h, index, range, k - 1)]]

\* drawCO2MiniChart: the scan over the validCount most recent slots
MiniScan(data, index, validCount) ==
    LET valid == {data[BarSlot(index, i)] : i \in 0..(validCount - 1)} \ {0}
    IN  [min |-> SetMin(valid \cup {10000}), max |-> SetMax(valid \cup {0})]

\* drawCO2MiniChart: hollow or filled
MiniBarKind(value) == IF value >= CO2_ALARM_THRESHOLD THEN "hollow" ELSE "filled"

\* Display::drawCO2MiniChart(x, y, width, height, data, count, index, color)
drawCO2MiniChart(width, height, data, count, index) ==
    LET validCount == getMin(count, 12)
        s0 == MiniScan(data, index, validCount)
        min1 == IF s0.min = 10000 THEN 400 ELSE s0.min
        max1 == IF s0.max = 0 THEN 1000 ELSE s0.max
        min2 == U16(getMax(0, min1 - 100))
        max2 == U16(max1 + 100)
        max3 == IF max2 <= min2 THEN U16(min2 + 200) ELSE max2
        bar(i) ==
            LET idx == BarSlot(index, i)
                value == data[idx]
                m == ArduinoMap(value, min2, max3, 2, height - 4)
            IN  IF value > 0
                THEN [i |-> i, idx |-> idx, value |-> value, kind |-> MiniBarKind(value),
                      height |-> m.value, div0 |-> m.div0]
                ELSE [i |-> i, idx |-> idx, value |-> value, kind |-> "none",
                      height |-> 0, div0 |-> FALSE]
    IN  [lo |-> min2, hi |-> max3, validCount |-> validCount,
         bars |-> [k \in 1..validCount |-> bar(k - 1)]]

\* the constants miniChartWidth and miniChartHeight of updateFull
MINI_CHART_WIDTH == 160

MINI_CHART_HEIGHT == 100

\* updateFull: the least and the greatest of data's value and the first count entries of
\* a trend history
TrendScan(value, data, count) ==
    LET seen == {value} \cup {data[i] : i \in 0..(count - 1)}
    IN  [min |-> SetMin(seen), max |-> SetMax(seen)]

\* updateFull: the scale of the temperature chart (a margin of 1.0, 2.0 if flat)
TemperatureScale(value, data, count) ==
    LET s0 == TrendScan(value, data, count)
        min1 == getMax(0, s0.min - 10)
        max1 == s0.max + 10
    IN  [min |-> min1, max |-> IF Abs(max1 - min1) < 1 THEN min1 + 20 ELSE max1]

\* updateFull: the scale of the humidity chart (a margin of 2.0 within 0..100, 5.0 if flat)
HumidityScale(value, data, count) ==
    LET s0 == TrendScan(value, data, count)
        min1 == getMax(0, s0.min - 20)
        max1 == getMin(1000, s0.max + 20)
    IN  [min |-> min1, max |-> IF Abs(max1 - min1) < 1 THEN min1 + 50 ELSE max1]

\* Display::drawMiniChart(x, y, width, height, data, count, index, min, max, color):
\* bar i reads data[i] and stands (i + 1) bar widths left of the right border; barX is
\* taken from the chart's x.  The float quotient is cut as the (int) cast cuts it.
drawMiniChart(width, height, data, count, index, min, max) ==
    LET barWidth == getMax(TruncDiv(width - 4, count), 4)
        bar(i) ==
            LET value == data[i]
                raw == 2 + TruncDiv((height - 6) * (value - min), max - min)
            IN  [i |-> i, idx |-> i, value |-> value,
                 height |-> constrain(raw, 2, height - 4),
                 barX |-> width - 2 - (i + 1) * barWidth]
    IN  IF max = min
        THEN [flat |-> TRUE, count |-> count, min |-> min, max |-> max, bars |-> <<>>]
        ELSE [flat |-> FALSE, count |-> count, min |-> min, max |-> max,
              bars |-> [k \in 1..count |-> bar(k - 1)]]

(* ------------------------------------------------------------------ *)
(* The pixels of the history chart                                    *)
(* ------------------------------------------------------------------ *)
\* drawBarChart: chartX, chartWidth, chartHeight and barWidth
CHART_X == 70

CHART_WIDTH == WIDTH - 100

CHART_HEIGHT == 160

BarWidth == getMax(TruncDiv(CHART_WIDTH - 10, DATA_HISTORY_SIZE), 1)

\* drawBarChart: the row a bar stands on, chartY + chartHeight - 5
BarBottom(v) == ChartY(v) + CHART_HEIGHT - 5

\* drawBarChart: the row of the reference line drawn last, across the whole chart
MidRow(v) == ChartY(v) + CHART_HEIGHT \div 2

\* drawBarChart: the columns of bar i, chartX + 5 + i * barWidth and barWidth - 1 further
BarLeft(i) == CHART_X + 5 + i * BarWidth

BarRight(i) == BarLeft(i) + BarWidth - 1

\* drawBarChart: the dashes of the alarm line, 3 pixels every 6 from chartX + 2 on
DashLit(x) ==
    /\ x >= CHART_X + 2
    /\ x - TruncMod(x - (CHART_X + 2), 6) < CHART_X + CHART_WIDTH - 4
    /\ TruncMod(x - (CHART_X + 2), 6) < 3

\* What a bar leaves in the framebuffer is kept as a stroke: the kind and height it was
\* drawn with, and the first of its rows that has not been cleared since.
BarStroke(bar) == [kind |-> bar.kind, height |-> bar.height, from |-> 0]

\* the rows a stroke lights over the whole width of its bar: fillRect for a filled bar,
\* the two drawFastHLine of a hollow bar, the two horizontal lines of the placeholder's
\* drawRect
StrokeFull(v, s) ==
    {row \in (IF s.kind = "filled" THEN (BarBottom(v) - s.height)..(BarBottom(v) - 1)
              ELSE IF s.kind = "hollow" THEN {BarBottom(v) - s.height, BarBottom(v)}
              ELSE {BarBottom(v) - 5, BarBottom(v) - 1}) : row >= s.from}

\* the rows a stroke lights in the first and the last column of its bar: the two
\* drawPixel per row of a hollow bar, the two vertical lines of the placeholder
StrokeSides(v, s) ==
    StrokeFull(v, s) \cup
    {row \in (IF s.kind = "filled" THEN {}
              ELSE IF s.kind = "hollow" THEN (BarBottom(v) - s.height + 1)..BarBottom(v)
              ELSE (BarBottom(v) - 5)..(BarBottom(v) - 1)) : row >= s.from}

\* the chart area of the framebuffer: per bar position the strokes drawn there, and the
\* rows holding a dashed alarm line
NoArea == [bars |-> [k \in 1..DATA_HISTORY_SIZE |-> {}], lines |-> {}]

\* what drawBarChart draws for a chart
ChartInk(chart) ==
    [bars |-> [k \in 1..DATA_HISTORY_SIZE |-> {BarStroke(chart.bars[k])}],
     lines |-> IF chart.line.drawn THEN {chart.line.y} ELSE {}]

\* updateChart: the rectangle of fillRect(0, 200, WIDTH, 100, COLOR_BLACK)
CLEAR_TOP == 200

CLEAR_HEIGHT == 100

\* fillRect(0, CLEAR_TOP, WIDTH, CLEAR_HEIGHT, COLOR_BLACK) on the chart area: the rows
\* CLEAR_TOP .. CLEAR_TOP + CLEAR_HEIGHT - 1 go dark over the whole width.  No row of a
\* bar is above CLEAR_TOP (chartY is 220 or 320), so what stays of a stroke are its rows
\* below the rectangle.
ClearChartRows(area) ==
    [bars |-> [k \in 1..DATA_HISTORY_SIZE |->
                 {[st EXCEPT !.from = getMax(@, CLEAR_TOP + CLEAR_HEIGHT)] :
                     st \in area.bars[k]}],
     lines |-> {row \in area.lines : row < CLEAR_TOP \/ row >= CLEAR_TOP + CLEAR_HEIGHT}]

\* drawing onto what the framebuffer holds: pixels are only ever set
Overdraw(area, ink) ==
    [bars |-> [k \in 1..DATA_HISTORY_SIZE |-> area.bars[k] \cup ink.bars[k]],
     lines |-> area.lines \cup ink.lines]

\* Display::updateFull: what it draws from the history (texts and borders left out).
\* ext holds the globals of main.cpp that updateFull reads through extern declarations.
updateFull(v, data, h, index, sensorConnected, ext) ==
    IF ~sensorConnected
    THEN [screen |-> "instructions", chart |-> <<>>, mini |-> <<>>, trend |-> <<>>,
          area |-> NoArea]
    ELSE LET chart == drawBarChart(v, h, index) IN
         [screen |-> "values",
          chart |-> <<chart>>,
          area |-> ChartInk(chart),
          mini |-> IF v = "part_001"
                   THEN <<drawCO2MiniChart(200, 100, h, 12, index)>>
                   ELSE <<>>,
          trend |-> IF v = "part_001"
                    THEN LET ts == TemperatureScale(data.temperature, ext.temperature,
                                                    ext.miniCount)
                             hs == HumidityScale(data.humidity, ext.humidity, ext.miniCount)
                         IN  <<drawMiniChart(MINI_CHART_WIDTH, MINI_CHART_HEIGHT,
                                             ext.temperature, ext.miniCount, ext.miniIndex,
                                             ts.min, ts.max),
                               drawMiniChart(MINI_CHART_WIDTH, MINI_CHART_HEIGHT,
                                             ext.humidity, ext.miniCount, ext.miniIndex,
                                             hs.min, hs.max)>>
                    ELSE <<>>]

\* Display::updateChart: fillRect(0, 200, WIDTH, 100, COLOR_BLACK), then the history chart
\* is drawn again over what the framebuffer holds; the rest of the screen stays
updateChart(v, r, h, index) ==
    LET chart == drawBarChart(v, h, index)
    IN  [r EXCEPT !.chart = <<chart>>,
                  !.area = Overdraw(ClearChartRows(r.area), ChartInk(chart))]

\* nothing drawn yet
NoRender ==
    [screen |-> "none", chart |-> <<>>, mini |-> <<>>, trend |-> <<>>, area |-> NoArea]

(* ------------------------------------------------------------------ *)
(* Display: the framebuffer and the panel driver before begin()        *)
(* ------------------------------------------------------------------ *)
\* WIDTH * HEIGHT / 8, the size of _buffer
BufferSize == (WIDTH * HEIGHT) \div 8

\* The framebuffer is kept as the byte of the last memset and the bytes written since
\* (index -> byte): BufferSize bytes, of which only a few differ from the fill.
BufferFilled(fillValue) == [fill |-> fillValue, over |-> <<>>]

ByteAt(b, i) == IF i \in DOMAIN b.over THEN b.over[i] ELSE b.fill

\* Display::Display: memset(_buffer, 0x00, ...)
BufferNew == BufferFilled(0)

NoXfer == [kind |-> "none", byte |-> 0, cs |-> "unset", dc |-> "unset"]

NoDraw == [x |-> 0, y |-> 0, color |-> 0, before |-> BufferNew, drawn |-> FALSE]

\* what is kept of a finished update(): the bytes it sent, how its busy wait ended,
\* what it handed back to its caller, and the drawing calls made before it.  The one
\* before the last is kept until the next update() is called.
NoUpdate == [len |-> 0, stream |-> {}, wait |-> "none", result |-> "none", draws |-> 0]

\* the running call of a line or rectangle primitive: its arguments, the buffer at its
\* entry, the line being drawn (the function itself, or the call drawRect has reached) and
\* the int16_t loop counters i and j
NoCall ==
    [fn |-> "none", x |-> 0, y |-> 0, w |-> 0, h |-> 0, color |-> 0, before |-> BufferNew,
     part |-> 0, i |-> 0, j |-> 0, inner |-> FALSE]

\* the driver before begin(): no pin has been configured.  `stream` holds the bytes
\* sent since the running operation was called, as the set of the transfers that are
\* not a data byte 0, each with its position; `nXfer` is their number, so the two
\* determine the sequence.
PanelOff ==
    [pc |-> "off", ret |-> "none", caller |-> "none", op |-> "none", i |-> 0,
     cs |-> "unset", dc |-> "unset", rst |-> "unset",
     lastXfer |-> NoXfer, nXfer |-> 0, csFalls |-> 0, stream |-> {},
     polls |-> 0, start |-> 0, elapsed |-> 0,
     initLog |-> <<>>, lastDraw |-> NoDraw, draws |-> 0, updates |-> 0, oob |-> FALSE,
     lastUpdate |-> NoUpdate, prevUpdate |-> NoUpdate,
     asleep |-> FALSE, sleeps |-> 0, call |-> NoCall]

(* ------------------------------------------------------------------ *)
(* Sensor environments                                                *)
(* ------------------------------------------------------------------ *)
IOError(kind) == [kind |-> kind, co2 |-> 0, temperature |-> 0, humidity |-> 0]

IOReading(d) ==
    [kind |-> "reading", co2 |-> d.co2, temperature |-> d.temperature, humidity |-> d.humidity]

\* "full": every outcome of an I2C exchange, a few readings (CO2 = 0 is the invalid one)
FullReadings ==
    {SensorData(0, 200, 500), SensorData(420, 200, 500), SensorData(1000, 205, 520)}

\* "ramp": every exchange succeeds and the CO2 level rises by 2 ppm per sensor tick, so
\* that every reading of a run is told apart from the others; temperature and humidity
\* change with every tick too, no two of twelve successive appends getting the same
RampReading(t) ==
    SensorData(DEFAULT_CO2 + 2 * (t \div DATA_INTERVAL),
               150 + ((t \div DATA_INTERVAL) % 97),
               300 + ((3 * (t \div DATA_INTERVAL)) % 101))

\* "heal": as "full" until HealTicks sensor ticks have passed, and no I2C operation
\* fails from then on (a measurement that is not ready, or reads 0, is not a failure)
Healed(t) == env = "heal" /\ t >= HealTicks * DATA_INTERVAL

SensorIOs(t) ==
    IF env = "ramp" THEN {IOReading(RampReading(t))}
    ELSE IF Healed(t) THEN {IOError("not_ready")} \cup {IOReading(d) : d \in FullReadings}
    ELSE {IOError("flag_error"), IOError("not_ready"), IOError("read_error")}
         \cup {IOReading(d) : d \in FullReadings}

\* a begin()/reset() exchange: all commands succeed, or one of them is the first to fail
BeginIO(stop0, check, stop, start) ==
    [stop0 |-> stop0, check |-> check, stop |-> stop, start |-> start]

BeginOK == BeginIO(TRUE, TRUE, TRUE, TRUE)

BeginIOs ==
    IF env = "ramp" \/ Healed(now) THEN {BeginOK}
    ELSE {BeginOK, BeginIO(FALSE, TRUE, TRUE, TRUE), BeginIO(TRUE, FALSE, TRUE, TRUE),
          BeginIO(TRUE, TRUE, FALSE, TRUE), BeginIO(TRUE, TRUE, TRUE, FALSE)}

Horizon ==
    (IF env = "ramp" THEN MaxRampMinutes * 2
     ELSE IF env = "heal" THEN MaxHealTicks
     ELSE IF env = "wrap" THEN WrapTicks
     ELSE MaxTicks) * DATA_INTERVAL

(* ------------------------------------------------------------------ *)
(* main.cpp: setup() and loop()                                       *)
(* ------------------------------------------------------------------ *)
\* the static initialisers of the temperature and humidity rings
TrendStatics ==
    /\ temperatureHistory = [i \in 0..(MINI_HISTORY_SIZE - 1) |-> 0]
    /\ humidityHistory = [i \in 0..(MINI_HISTORY_SIZE - 1) |-> 0]
    /\ miniHistoryIndex = 0
    /\ miniHistoryCount = 0

\* the static initialisers of main.cpp, the history store apart
MainStatics ==
    /\ now = 0
    /\ co2Sensor = SensorNew
    /\ currentData = SensorData(DEFAULT_CO2, DEFAULT_TEMPERATURE, DEFAULT_HUMIDITY)
    /\ lastDisplayedData = SensorData(0, 0, 0)
    /\ lastFullUpdateTime = 0
    /\ lastDataUpdateTime = 0
    /\ lastHistoryUpdateTime = 0
    /\ lastBuzzerTime = 0
    /\ buzzerActive = FALSE
    /\ rendered = NoRender
    /\ appended = <<>>
    /\ readRun = 0
    /\ validsSinceInit = 0
    /\ lastIter = [op |-> "boot", tick |-> FALSE, io |-> "none", updated |-> FALSE,
                   appended |-> FALSE, refreshes |-> 0, reconnect |-> "none",
                   alarm |-> FALSE, buzzerOff |-> FALSE, alarms |-> 0,
                   history |-> FALSE, forced |-> FALSE, forceds |-> 0]

Statics == TrendStatics /\ MainStatics

\* the static initialisers of main.cpp
Boot ==
    /\ pc = "boot"
    /\ co2History = [i \in 0..(DATA_HISTORY_SIZE - 1) |-> 0]
    /\ historyIndex = 0
    /\ Statics
    /\ buffer = BufferNew
    /\ panel = PanelOff

\* setup()
Setup ==
    /\ pc = "boot"
    /\ \E io \in BeginIOs :
         LET s == SensorBegin(SensorNew, io)
             data == s.data
         IN  /\ co2Sensor' = s
             /\ currentData' = data
             /\ temperatureHistory' = [i \in 0..(MINI_HISTORY_SIZE - 1) |-> data.temperature]
             /\ humidityHistory' = [i \in 0..(MINI_HISTORY_SIZE - 1) |-> data.humidity]
             /\ miniHistoryCount' = 1
             /\ co2History' = [i \in 0..(DATA_HISTORY_SIZE - 1) |-> 0]
             /\ rendered' = updateFull(variant, data, co2History', historyIndex, s.connected,
                                       [temperature |-> temperatureHistory',
                                        humidity |-> humidityHistory',
                                        miniIndex |-> miniHistoryIndex,
                                        miniCount |-> miniHistoryCount'])
             /\ lastDisplayedData' = data
    /\ pc' = "loop"
    /\ now' = SetupSeconds * 1000
    /\ lastIter' = [op |-> "setup", tick |-> FALSE, io |-> "none", updated |-> FALSE,
                    appended |-> FALSE, refreshes |-> 1, reconnect |-> "none",
                    alarm |-> FALSE, buzzerOff |-> FALSE, alarms |-> 0,
                    history |-> FALSE, forced |-> FALSE, forceds |-> 0]
    /\ UNCHANGED <<variant, env, historyIndex, miniHistoryIndex, lastFullUpdateTime,
                   lastDataUpdateTime, lastHistoryUpdateTime, lastBuzzerTime, buzzerActive,
                   appended, readRun, validsSinceInit, panelVars>>

\* a variant of the elapsed time that is 0 while the counter reads less than `last`
ElapsedSaturating(t, last) ==
    IF (IF (t >= 0) = (last >= 0) THEN t < last ELSE t >= 0) THEN 0 ELSE U32Sub(t, last)

\* currentTime - last, in unsigned long
Elapsed(t, last) == U32Sub(t, last)

\* loop(): the sensor tick is due
TickDue(t) == U32AtLeast(Elapsed(t, lastDataUpdateTime), DATA_INTERVAL)

\* loop(): the gate and the period of the history update
LoopGate(s) == s.connected /\ GateOpen(s)

HistoryDue(t, s) == LoopGate(s) /\ U32AtLeast(Elapsed(t, lastHistoryUpdateTime), HISTORY_INTERVAL)

FullRefreshDue(t, lastFull) == U32AtLeast(Elapsed(t, lastFull), FULL_REFRESH_INTERVAL)

BuzzerOffDue(t, active, lastBuzzer) == active /\ U32AtLeast(Elapsed(t, lastBuzzer), BUZZER_ON_TIME)

\* the milliseconds between loop()'s millis() and the one of checkAlarm(), which runs
\* after the sensor has been polled over I2C
CheckAlarmLags == {0, 2}

\* checkAlarm(), t being its own millis()
AlarmDue(t, data) ==
    data.co2 >= CO2_ALARM_THRESHOLD /\ U32AtLeast(Elapsed(t, lastBuzzerTime), BUZZER_INTERVAL)

\* some branch of loop() is taken at time t
SomethingDue(t) ==
    \/ TickDue(t)
    \/ HistoryDue(t, co2Sensor)
    \/ FullRefreshDue(t, lastFullUpdateTime)
    \/ BuzzerOffDue(t, buzzerActive, lastBuzzerTime)

\* the number of loop() iterations, each delay(1000), until some branch is due
IdleIterations ==
    LET remTick == DATA_INTERVAL - Elapsed(now, lastDataUpdateTime)
        remHist == IF LoopGate(co2Sensor)
                   THEN HISTORY_INTERVAL - Elapsed(now, lastHistoryUpdateTime)
                   ELSE remTick
        remFull == FULL_REFRESH_INTERVAL - Elapsed(now, lastFullUpdateTime)
        remBuzz == IF buzzerActive
                   THEN BUZZER_ON_TIME - Elapsed(now, lastBuzzerTime)
                   ELSE remTick
        rem == getMin(getMin(remTick, remHist), getMin(remFull, remBuzz))
    IN  (rem + LOOP_DELAY - 1) \div LOOP_DELAY


\* one iteration of loop() in which some branch is taken; io is what the sensor delivers
\* to update(), rio which commands of a reconnection succeed
LoopBody(io, rio, lag) ==
    LET currentTime == now
        alarmTime == U32Add(currentTime, lag)
        tick == TickDue(currentTime)
        reconnect == tick /\ ~co2Sensor.connected
        s1 == IF reconnect THEN SensorReset(co2Sensor, rio) ELSE co2Sensor
        polled == tick /\ s1.connected
        u == IF polled THEN SensorUpdate(s1, io) ELSE [sensor |-> s1, updated |-> FALSE]
        s2 == u.sensor
        data == IF u.updated THEN s2.data ELSE currentData
        alarm == tick /\ s2.connected /\ AlarmDue(alarmTime, data)
        buzzer1 == IF alarm THEN TRUE ELSE buzzerActive
        lastBuzzer1 == IF alarm THEN alarmTime ELSE lastBuzzerTime
        changed == tick /\ s2.connected /\ u.updated /\ significantChange(data, lastDisplayedData)
        instructions == tick /\ ~s2.connected
        refresh1 == changed \/ instructions
        history == HistoryDue(currentTime, s2)
        h == IF history THEN updateHistory(HistoryNow, s2, data) ELSE HistoryNow
        wrote == h # HistoryNow
        lastFull1 == IF refresh1 \/ history THEN currentTime ELSE lastFullUpdateTime
        refresh3 == FullRefreshDue(currentTime, lastFull1)
        buzzerOff == BuzzerOffDue(currentTime, buzzer1, lastBuzzer1)
        good == polled /\ io.kind = "reading" /\ io.co2 > 0
        bad == polled /\ (io.kind \in {"flag_error", "read_error"}
                          \/ (io.kind = "reading" /\ io.co2 = 0))
        failed == polled /\ io.kind \in {"flag_error", "read_error"}
        began == reconnect /\ s1.connected
    IN  /\ co2Sensor' = s2
        /\ currentData' = data
        /\ lastDataUpdateTime' = IF tick THEN currentTime ELSE lastDataUpdateTime
        /\ lastBuzzerTime' = lastBuzzer1
        /\ buzzerActive' = IF buzzerOff THEN FALSE ELSE buzzer1
        /\ co2History' = h.co2
        /\ historyIndex' = h.index
        /\ temperatureHistory' = h.temperature
        /\ humidityHistory' = h.humidity
        /\ miniHistoryIndex' = h.miniIndex
        /\ miniHistoryCount' = h.miniCount
        /\ lastHistoryUpdateTime' = IF history THEN currentTime ELSE lastHistoryUpdateTime
        /\ lastFullUpdateTime' = IF refresh3 THEN currentTime ELSE lastFull1
        /\ lastDisplayedData' = IF refresh1 \/ history \/ refresh3 THEN data
                                ELSE lastDisplayedData
        /\ rendered' = IF history \/ refresh3
                       THEN updateFull(variant, data, h.co2, h.index, s2.connected, h)
                       ELSE IF refresh1
                       THEN updateFull(variant, data, co2History, historyIndex, s2.connected,
                                       HistoryNow)
                       ELSE rendered
        /\ appended' = IF wrote
                       THEN Append(appended, [co2 |-> data.co2,
                                              temperature |-> data.temperature,
                                              humidity |-> data.humidity,
                                              at |-> currentTime])
                       ELSE appended
        /\ readRun' = IF bad THEN 0
                      ELSE IF good THEN getMin(readRun + 1, MIN_VALID_READINGS)
                      ELSE readRun
        /\ validsSinceInit' = IF failed THEN 0
                              ELSE IF good
                              THEN getMin((IF began THEN 0 ELSE validsSinceInit) + 1,
                                          MIN_VALID_READINGS)
                              ELSE IF began THEN 0
                              ELSE validsSinceInit
        /\ lastIter' = [op |-> "loop", tick |-> tick,
                        io |-> IF polled THEN io.kind ELSE "none",
                        updated |-> u.updated, appended |-> wrote,
                        refreshes |-> (IF refresh1 THEN 1 ELSE 0) + (IF history THEN 1 ELSE 0)
                                      + (IF refresh3 THEN 1 ELSE 0),
                        reconnect |-> IF ~reconnect THEN "none"
                                      ELSE IF s1.connected THEN "begun"
                                      ELSE "failed",
                        alarm |-> alarm, buzzerOff |-> buzzerOff,
                        alarms |-> lastIter.alarms + (IF alarm THEN 1 ELSE 0),
                        history |-> history, forced |-> refresh3,
                        forceds |-> lastIter.forceds + (IF refresh3 THEN 1 ELSE 0)]

\* loop(), an iteration that does something
Loop ==
    /\ pc = "loop"
    /\ now <= Horizon
    /\ SomethingDue(now)
    /\ \E rio \in (IF TickDue(now) /\ ~co2Sensor.connected THEN BeginIOs ELSE {BeginOK}) :
         \E io \in (IF TickDue(now) /\ (co2Sensor.connected \/ SensorReset(co2Sensor, rio).connected)
                    THEN SensorIOs(now) ELSE {IOError("none")}) :
            \E lag \in (IF TickDue(now)
                            /\ \E d \in CheckAlarmLags :
                                   U32AtLeast(Elapsed(U32Add(now, d), lastBuzzerTime),
                                              BUZZER_INTERVAL)
                         THEN CheckAlarmLags ELSE {0}) :
               LoopBody(io, rio, lag)
    /\ now' = U32Add(now, LOOP_DELAY)
    /\ UNCHANGED <<variant, env, pc, panelVars>>

\* loop(), the iterations in which no branch is taken: only delay(1000) happens
LoopIdle ==
    /\ pc = "loop"
    /\ now <= Horizon
    /\ ~SomethingDue(now)
    /\ now' = U32Add(now, IdleIterations * LOOP_DELAY)
    /\ lastIter' = [op |-> "idle", tick |-> FALSE, io |-> "none", updated |-> FALSE,
                    appended |-> FALSE, refreshes |-> 0, reconnect |-> "none",
                    alarm |-> FALSE, buzzerOff |-> FALSE, alarms |-> lastIter.alarms,
                    history |-> FALSE, forced |-> FALSE, forceds |-> lastIter.forceds]
    /\ UNCHANGED <<variant, env, pc, co2Sensor, currentData, lastDisplayedData, co2History,
                   historyIndex, temperatureHistory, humidityHistory, miniHistoryIndex,
                   miniHistoryCount, lastFullUpdateTime, lastDataUpdateTime,
                   lastHistoryUpdateTime, lastBuzzerTime, buzzerActive, rendered, appended,
                   readRun, validsSinceInit, panelVars>>

Init ==
    /\ variant \in Variants
    /\ env = "full"
    /\ Boot

Next == Setup \/ Loop \/ LoopIdle

Spec == Init /\ [][Next]_vars

\* loop() is called again and again by the Arduino core: the program always goes on
InitReconnect ==
    /\ variant \in Variants
    /\ env = "heal"
    /\ Boot

SpecReconnect == InitReconnect /\ [][Next]_vars /\ WF_vars(Next)

InitHistory ==
    /\ variant \in Variants
    /\ env = "ramp"
    /\ Boot

SpecHistory == InitHistory /\ [][Next]_vars


(* ------------------------------------------------------------------ *)
(* Properties of the history store                                    *)
(* ------------------------------------------------------------------ *)
\* the slot written by the j-th append, j counted from 0
SlotOf(j) == j % DATA_HISTORY_SIZE

\* C1: after k appends historyIndex is k mod 48, each of the last min(k, 48) appended
\* values (the j-th, j counted from 0) is in slot j mod 48, and a slot never written is 0.
C1_RingHoldsLast48 ==
    LET k == Len(appended)
    IN  /\ historyIndex = k % DATA_HISTORY_SIZE
        /\ \A j \in 0..(k - 1) :
             j + DATA_HISTORY_SIZE >= k => co2History[SlotOf(j)] = appended[j + 1].co2
        /\ \A slot \in 0..(DATA_HISTORY_SIZE - 1) : slot >= k => co2History[slot] = 0

\* C1 witness: the ring has wrapped, two of the oldest entries have been overwritten
C1_Wrapped == Len(appended) = DATA_HISTORY_SIZE + 2 /\ lastIter.appended

\* C2: when the chart is drawn after an append, bar 0 shows the entry appended last and
\* bar i the entry appended i appends before it.
C2_NewestFirst ==
    (lastIter.appended /\ rendered.chart # <<>>) =>
        LET k == Len(appended)
            bars == rendered.chart[1].bars
        IN  \A i \in 0..(DATA_HISTORY_SIZE - 1) :
               i < k => /\ bars[i + 1].idx = SlotOf(k - 1 - i)
                        /\ bars[i + 1].value = appended[k - i].co2

\* C5 as stated: an append happens only right after three valid readings in a row, a
\* CO2 = 0 reading or a read error having restarted the run.
C5_ThreeInARow == lastIter.appended => readRun >= MIN_VALID_READINGS

\* C5: an append happens only when three valid readings have been taken since the
\* sensor was last initialised and since its last read error; a CO2 = 0 reading does not
\* restart that count.
C5_ThreeSinceInit == lastIter.appended => validsSinceInit >= MIN_VALID_READINGS

\* C5 witness: an append right after a CO2 = 0 reading
C5_AppendAfterInvalid == lastIter.appended /\ readRun = 0 /\ lastIter.io = "reading"


(* ------------------------------------------------------------------ *)
(* The chart renderer on its own                                      *)
(* ------------------------------------------------------------------ *)
\* the number of history slots that take every value of ChartValues (the others are 0)
ChartSlots == 3

\* CO2 values around the alarm threshold, above the start value 10000 of the minimum
\* scan, and at the ends of uint16_t
ChartValues == {0, 400, CO2_ALARM_THRESHOLD - 1, CO2_ALARM_THRESHOLD,
                CO2_ALARM_THRESHOLD + 1, 10200, 65535}

ChartHistories ==
    {[i \in 0..(DATA_HISTORY_SIZE - 1) |-> IF i < ChartSlots THEN f[i] ELSE 0] :
        f \in [0..(ChartSlots - 1) -> ChartValues]}

\* the number of samples appended to the temperature and humidity rings before the
\* chart is drawn: none, and enough to wrap the rings
ChartTrendAppends == {0, MINI_HISTORY_SIZE + 1}

\* a variant of the store after setup() whose count of trend samples is left at 0
RECURSIVE TrendAfterNoSeed(_)
TrendAfterNoSeed(k) ==
    IF k = 0
    THEN [co2 |-> [i \in 0..(DATA_HISTORY_SIZE - 1) |-> 0], index |-> 0,
          temperature |-> [i \in 0..(MINI_HISTORY_SIZE - 1) |-> DEFAULT_TEMPERATURE],
          humidity |-> [i \in 0..(MINI_HISTORY_SIZE - 1) |-> DEFAULT_HUMIDITY],
          miniIndex |-> 0, miniCount |-> 0]
    ELSE updateHistory(TrendAfterNoSeed(k - 1),
                       [SensorNew EXCEPT !.connected = TRUE,
                                         !.validReadingCount = MIN_VALID_READINGS],
                       SensorData(DEFAULT_CO2, DEFAULT_TEMPERATURE + k, DEFAULT_HUMIDITY - 2 * k))

\* the history store after setup() and k appends of distinct samples
RECURSIVE TrendAfter(_)
TrendAfter(k) ==
    IF k = 0
    THEN [co2 |-> [i \in 0..(DATA_HISTORY_SIZE - 1) |-> 0], index |-> 0,
          temperature |-> [i \in 0..(MINI_HISTORY_SIZE - 1) |-> DEFAULT_TEMPERATURE],
          humidity |-> [i \in 0..(MINI_HISTORY_SIZE - 1) |-> DEFAULT_HUMIDITY],
          miniIndex |-> 0, miniCount |-> 1]
    ELSE updateHistory(TrendAfter(k - 1),
                       [SensorNew EXCEPT !.connected = TRUE,
                                         !.validReadingCount = MIN_VALID_READINGS],
                       SensorData(DEFAULT_CO2, DEFAULT_TEMPERATURE + k, DEFAULT_HUMIDITY - 2 * k))

\* the number of times the chart is drawn in a run
MaxRenders == 2

InitChart ==
    /\ variant \in Variants
    /\ env = "chart"
    /\ pc = "chart"
    /\ co2History \in ChartHistories
    /\ historyIndex \in {0, ChartSlots}
    /\ \E k \in ChartTrendAppends :
         /\ temperatureHistory = TrendAfter(k).temperature
         /\ humidityHistory = TrendAfter(k).humidity
         /\ miniHistoryIndex = TrendAfter(k).miniIndex
         /\ miniHistoryCount = TrendAfter(k).miniCount
    /\ MainStatics
    /\ buffer = BufferNew
    /\ panel = PanelOff

\* a variant of the render that marks the newest entry of the trend rings as drawn
UpdateFullConsumingTrend ==
    /\ pc \in {"chart", "drawn"}
    /\ lastIter.refreshes < MaxRenders
    /\ pc' = "drawn"
    /\ miniHistoryCount' = getMax(miniHistoryCount - 1, 1)
    /\ rendered' = updateFull(variant, currentData, co2History, historyIndex, TRUE,
                              HistoryNow)
    /\ lastIter' = [lastIter EXCEPT !.op = "updateFull", !.refreshes = @ + 1]
    /\ UNCHANGED <<variant, env, now, co2Sensor, currentData, lastDisplayedData, co2History,
                   historyIndex, temperatureHistory, humidityHistory, miniHistoryIndex,
                   lastFullUpdateTime, lastDataUpdateTime,
                   lastHistoryUpdateTime, lastBuzzerTime, buzzerActive, appended, readRun,
                   validsSinceInit, panelVars>>

\* display->updateFull(currentData, co2History, historyIndex, true)
UpdateFull ==
    /\ pc \in {"chart", "drawn"}
    /\ lastIter.refreshes < MaxRenders
    /\ pc' = "drawn"
    /\ rendered' = updateFull(variant, currentData, co2History, historyIndex, TRUE,
                              HistoryNow)
    /\ lastIter' = [lastIter EXCEPT !.op = "updateFull", !.refreshes = @ + 1]
    /\ UNCHANGED <<variant, env, now, co2Sensor, currentData, lastDisplayedData, co2History,
                   historyIndex, temperatureHistory, humidityHistory, miniHistoryIndex,
                   miniHistoryCount, lastFullUpdateTime, lastDataUpdateTime,
                   lastHistoryUpdateTime, lastBuzzerTime, buzzerActive, appended, readRun,
                   validsSinceInit, panelVars>>

\* display->updateChart(co2History, historyIndex), on a screen drawn by updateFull
UpdateChart ==
    /\ pc = "drawn"
    /\ lastIter.refreshes < MaxRenders
    /\ pc' = "drawn"
    /\ rendered' = updateChart(variant, rendered, co2History, historyIndex)
    /\ lastIter' = [lastIter EXCEPT !.op = "updateChart", !.refreshes = @ + 1]
    /\ UNCHANGED <<variant, env, now, co2Sensor, currentData, lastDisplayedData, co2History,
                   historyIndex, temperatureHistory, humidityHistory, miniHistoryIndex,
                   miniHistoryCount, lastFullUpdateTime, lastDataUpdateTime,
                   lastHistoryUpdateTime, lastBuzzerTime, buzzerActive, appended, readRun,
                   validsSinceInit, panelVars>>

NextChart == UpdateFull \/ UpdateChart

SpecChart == InitChart /\ [][NextChart]_vars

\* the number of history appends in a run with redraws, and the CO2 values appended
MaxRedrawAppends == 2

RedrawSamples == {400, CO2_ALARM_THRESHOLD, 3000}

\* the sensor once three valid readings have opened the gate of updateHistory()
SensorSettled ==
    [SensorNew EXCEPT !.connected = TRUE, !.validReadingCount = MIN_VALID_READINGS]

\* updateHistory(), called by loop() between two redraws
UpdateHistory ==
    /\ pc \in {"chart", "drawn"}
    /\ Len(appended) < MaxRedrawAppends
    /\ \E co2 \in RedrawSamples :
         LET data == SensorData(co2, DEFAULT_TEMPERATURE, DEFAULT_HUMIDITY)
             h == updateHistory(HistoryNow, SensorSettled, data)
         IN  /\ co2History' = h.co2
             /\ historyIndex' = h.index
             /\ temperatureHistory' = h.temperature
             /\ humidityHistory' = h.humidity
             /\ miniHistoryIndex' = h.miniIndex
             /\ miniHistoryCount' = h.miniCount
             /\ currentData' = data
             /\ appended' = Append(appended, [co2 |-> data.co2,
                                              temperature |-> data.temperature,
                                              humidity |-> data.humidity, at |-> now])
    /\ lastIter' = [lastIter EXCEPT !.op = "updateHistory"]
    /\ UNCHANGED <<variant, env, pc, now, co2Sensor, lastDisplayedData, lastFullUpdateTime,
                   lastDataUpdateTime, lastHistoryUpdateTime, lastBuzzerTime, buzzerActive,
                   rendered, readRun, validsSinceInit, panelVars>>

\* the store as setup() leaves it, nothing drawn yet
InitRedraw ==
    /\ variant \in Variants
    /\ env = "redraw"
    /\ pc = "chart"
    /\ co2History = TrendAfter(0).co2
    /\ historyIndex = TrendAfter(0).index
    /\ temperatureHistory = TrendAfter(0).temperature
    /\ humidityHistory = TrendAfter(0).humidity
    /\ miniHistoryIndex = TrendAfter(0).miniIndex
    /\ miniHistoryCount = TrendAfter(0).miniCount
    /\ MainStatics
    /\ buffer = BufferNew
    /\ panel = PanelOff

NextRedraw == UpdateFull \/ UpdateChart \/ UpdateHistory

SpecRedraw == InitRedraw /\ [][NextRedraw]_vars

\* every bar of the charts drawn last
RenderedBars ==
    UNION {{rendered.chart[c].bars[k] : k \in DOMAIN rendered.chart[c].bars} :
             c \in DOMAIN rendered.chart}
    \cup UNION {{rendered.mini[c].bars[k] : k \in DOMAIN rendered.mini[c].bars} :
                  c \in DOMAIN rendered.mini}

\* C6: a bar of the history chart or of the CO2 trend chart whose value v is at or above
\* the alarm threshold is hollow, a bar with 0 < v below the threshold is filled.
C6_HollowFromThreshold ==
    \A b \in RenderedBars :
        /\ b.value = co2History[b.idx]
        /\ b.value >= CO2_ALARM_THRESHOLD => b.kind = "hollow"
        /\ (0 < b.value /\ b.value < CO2_ALARM_THRESHOLD) => b.kind = "filled"

\* C6 witness: both charts drawn with a bar at exactly the threshold and a bar below it
C6_BarAtThreshold ==
    /\ pc = "drawn"
    /\ \E c \in DOMAIN rendered.chart, k \in 1..DATA_HISTORY_SIZE :
         /\ rendered.chart[c].bars[k].value = CO2_ALARM_THRESHOLD
         /\ rendered.chart[c].bars[k].kind = "hollow"
    /\ \E c \in DOMAIN rendered.mini : \E k \in DOMAIN rendered.mini[c].bars :
         /\ rendered.mini[c].bars[k].value = CO2_ALARM_THRESHOLD
         /\ rendered.mini[c].bars[k].kind = "hollow"
    /\ \E b \in RenderedBars : b.value = CO2_ALARM_THRESHOLD - 1 /\ b.kind = "filled"

\* C7: the axis range drawBarChart ends up with has lo < hi, whatever the history holds.
C7_RangeOrdered ==
    \A c \in DOMAIN rendered.chart : rendered.chart[c].lo < rendered.chart[c].hi


(* ------------------------------------------------------------------ *)
(* Display::drawPixel                                                 *)
(* ------------------------------------------------------------------ *)
COLOR_BLACK == 0

COLOR_WHITE == 1

RECURSIVE Pow2(_)
Pow2(k) == IF k = 0 THEN 1 ELSE 2 * Pow2(k - 1)

\* bit k of a byte
Bit(byte, k) == (byte \div Pow2(k)) % 2

\* byte |= (1 << k) and byte &= ~(1 << k) in a uint8_t
SetBit(byte, k) == IF k > 7 \/ Bit(byte, k) = 1 THEN byte ELSE byte + Pow2(k)

ClearBit(byte, k) == IF k > 7 \/ Bit(byte, k) = 0 THEN byte ELSE byte - Pow2(k)

\* the body of drawPixel after its bounds test; a byte index outside _buffer is a write
\* outside the allocation, reported as `oob`
PlotPixel(b, x, y, color) ==
    LET pos == y * WIDTH + x
        byte_idx == TruncDiv(pos, 8)
        bit_pos == 7 - TruncMod(pos, 8)
        old == ByteAt(b, byte_idx)
        new == IF color = COLOR_WHITE THEN SetBit(old, bit_pos) ELSE ClearBit(old, bit_pos)
    IN  IF byte_idx < 0 \/ byte_idx >= BufferSize
        THEN [buffer |-> b, oob |-> TRUE]
        ELSE [buffer |-> [b EXCEPT !.over = (byte_idx :> new) @@ @], oob |-> FALSE]

\* a variant of drawPixel whose bounds test forgets y >= HEIGHT
drawPixelNoHeightTest(b, x, y, color) ==
    IF x < 0 \/ x >= WIDTH \/ y < 0 THEN [buffer |-> b, oob |-> FALSE]
    ELSE PlotPixel(b, x, y, color)

\* Display::drawPixel(x, y, color)
drawPixel(b, x, y, color) ==
    IF x < 0 \/ x >= WIDTH \/ y < 0 \/ y >= HEIGHT THEN [buffer |-> b, oob |-> FALSE]
    ELSE PlotPixel(b, x, y, color)

\* Display::fillScreen(color)
fillScreen(color) == BufferFilled(IF color = COLOR_WHITE THEN 255 ELSE 0)

\* the number of drawPixel calls in a run of the pixel specification
MaxPixelDraws == 2
\* the number of drawPixel calls in a run of the panel specification
MaxPanelDraws == 1

\* the coordinates and colours drawPixel is called with; in the runs of the panel
\* driver the one pixel drawn is the last of the panel, in the last byte of the buffer
PixelXs == IF env = "pixel" THEN {-1, 0, 1, 7, 8, WIDTH - 1, WIDTH} ELSE {WIDTH - 1}

PixelYs == IF env = "pixel" THEN {-1, 0, 1, HEIGHT - 1, HEIGHT} ELSE {HEIGHT - 1}

PixelColors == IF env = "pixel" THEN {COLOR_BLACK, COLOR_WHITE, 2} ELSE {COLOR_WHITE}

MaxDraws == IF env = "pixel" THEN MaxPixelDraws ELSE MaxPanelDraws

\* a call of drawPixel between two operations of the driver
DrawPixel ==
    /\ pc = "panel"
    /\ panel.pc = "ready"
    /\ panel.draws < MaxDraws
    /\ \E x \in PixelXs, y \in PixelYs, color \in PixelColors :
         LET r == drawPixel(buffer, x, y, color)
         IN  /\ buffer' = r.buffer
             /\ panel' = [panel EXCEPT
                            !.lastDraw = [x |-> x, y |-> y, color |-> color,
                                          before |-> buffer, drawn |-> TRUE],
                            !.draws = @ + 1,
                            !.oob = @ \/ r.oob]
    /\ UNCHANGED <<variant, env, progVars>>

\* the driver after begin(), between two operations
PanelReady ==
    [PanelOff EXCEPT !.pc = "ready", !.cs = "HIGH", !.dc = "HIGH", !.rst = "HIGH"]

InitPixel ==
    /\ variant \in Variants
    /\ env = "pixel"
    /\ pc = "panel"
    /\ co2History = [i \in 0..(DATA_HISTORY_SIZE - 1) |-> 0]
    /\ historyIndex = 0
    /\ Statics
    /\ buffer \in {fillScreen(COLOR_BLACK), fillScreen(COLOR_WHITE)}
    /\ panel = PanelReady

NextPixel == DrawPixel

SpecPixel == InitPixel /\ [][NextPixel]_vars

\* C4: drawPixel leaves the framebuffer alone for coordinates outside the panel; inside,
\* the byte index (y*648+x)/8 is below 38880 and the one bit 7 - ((y*648+x) mod 8) of
\* that byte is set for white and cleared for any other colour, no other bit changing.
C4_DrawPixelLocal ==
    panel.lastDraw.drawn =>
        LET d == panel.lastDraw
            inside == d.x >= 0 /\ d.x < WIDTH /\ d.y >= 0 /\ d.y < HEIGHT
            pos == d.y * WIDTH + d.x
            idx == pos \div 8
            bit == 7 - (pos % 8)
            touched == DOMAIN buffer.over \cup DOMAIN d.before.over
        IN  /\ ~panel.oob
            /\ buffer.fill = d.before.fill
            /\ ~inside => \A i \in touched : ByteAt(buffer, i) = ByteAt(d.before, i)
            /\ inside =>
                 /\ idx < BufferSize
                 /\ \A i \in touched \cup {idx}, k \in 0..7 :
                      Bit(ByteAt(buffer, i), k) =
                          IF i = idx /\ k = bit
                          THEN (IF d.color = COLOR_WHITE THEN 1 ELSE 0)
                          ELSE Bit(ByteAt(d.before, i), k)

\* C4 witness: the last pixel of the panel turned white in a buffer that has another
\* byte written, and its byte is the last of the buffer
C4_LastPixelSet ==
    /\ panel.lastDraw.drawn
    /\ panel.lastDraw.x = WIDTH - 1 /\ panel.lastDraw.y = HEIGHT - 1
    /\ panel.lastDraw.color = COLOR_WHITE
    /\ ByteAt(panel.lastDraw.before, BufferSize - 1) = 0
    /\ ByteAt(buffer, BufferSize - 1) = 1
    /\ 0 \in DOMAIN buffer.over


(* ------------------------------------------------------------------ *)
(* The panel driver: begin, initDisplay, update, sleep, waitUntilIdle *)
(* ------------------------------------------------------------------ *)
\* waitUntilIdle of part_001: timeout in ms, and the delay(10) of both copies
WAIT_TIMEOUT == 5000

POLL_DELAY == 10

\* the number of polls after which a run of the older waitUntilIdle is cut off
PollCap == 505
\* the number of update() calls main makes in a run
MaxUpdates == 2
\* the number of sleep() calls main makes in a run
MaxSleeps == 1

\* millis() when a wait starts: early after boot, and 3 s before the counter wraps
StartTimes == {1000, -3000}

\* the log of the bytes sent, after one more byte
Logged(p, kind, byte) ==
    IF kind = "data" /\ byte = 0 THEN p.stream
    ELSE p.stream \cup {[n |-> p.nXfer + 1, kind |-> kind, byte |-> byte]}

\* Display::sendCommand
sendCommand(p, command) ==
    LET p1 == [p EXCEPT !.dc = "LOW"]
        p2 == [p1 EXCEPT !.cs = "LOW"]
        transfer == [kind |-> "cmd", byte |-> command, cs |-> p2.cs, dc |-> p2.dc]
    IN  [p2 EXCEPT !.cs = "HIGH", !.lastXfer = transfer, !.nXfer = @ + 1,
                   !.stream = Logged(p, "cmd", command),
                   !.csFalls = @ + (IF p1.cs # "LOW" THEN 1 ELSE 0)]

\* a variant of sendData that leaves chip-select asserted
sendDataHoldingCS(p, data) ==
    LET p1 == [p EXCEPT !.dc = "HIGH"]
        p2 == [p1 EXCEPT !.cs = "LOW"]
        transfer == [kind |-> "data", byte |-> data, cs |-> p2.cs, dc |-> p2.dc]
    IN  [p2 EXCEPT !.lastXfer = transfer, !.nXfer = @ + 1,
                   !.stream = Logged(p, "data", data),
                   !.csFalls = @ + (IF p1.cs # "LOW" THEN 1 ELSE 0)]

\* Display::sendData
sendData(p, data) ==
    LET p1 == [p EXCEPT !.dc = "HIGH"]
        p2 == [p1 EXCEPT !.cs = "LOW"]
        transfer == [kind |-> "data", byte |-> data, cs |-> p2.cs, dc |-> p2.dc]
    IN  [p2 EXCEPT !.cs = "HIGH", !.lastXfer = transfer, !.nXfer = @ + 1,
                   !.stream = Logged(p, "data", data),
                   !.csFalls = @ + (IF p1.cs # "LOW" THEN 1 ELSE 0)]

\* Display::reset
reset(p) == [[p EXCEPT !.rst = "LOW"] EXCEPT !.rst = "HIGH", !.asleep = FALSE]

Cmd(b) == [kind |-> "cmd", byte |-> b]

Data(b) == [kind |-> "data", byte |-> b]

Step(kind) == [kind |-> kind, byte |-> 0]

\* reset() and the body of initDisplay(), statement by statement.  part_001 calls
\* reset() inside initDisplay; in Display.cpp begin() calls it right before.
InitProgram(v) ==
    IF v = "part_001"
    THEN <<Step("reset"),
           Cmd(6), Data(23), Data(23), Data(40), Data(23),
           Cmd(4), Step("wait"),
           Cmd(0), Data(15),
           Cmd(80), Data(32), Data(7),
           Cmd(97), Data(WIDTH \div 256), Data(WIDTH % 256),
                    Data(HEIGHT \div 256), Data(HEIGHT % 256)>>
    ELSE <<Step("reset"),
           Cmd(6), Data(23), Data(23), Data(40), Data(23),
           Cmd(4), Step("wait"),
           Cmd(0), Data(15),
           Cmd(80), Data(32), Data(7)>>

\* the body of sleep()
SleepProgram == <<Cmd(2), Step("wait"), Cmd(7), Data(165)>>

\* entering waitUntilIdle: startTime = millis()
EnterWait(p, ret, startTime) ==
    [p EXCEPT !.pc = "wait", !.ret = ret, !.polls = 0, !.start = startTime, !.elapsed = 0]

\* one statement of a straight-line body
RunStep(p, ins, ret, startTime) ==
    IF ins.kind = "cmd" THEN sendCommand(p, ins.byte)
    ELSE IF ins.kind = "data" THEN sendData(p, ins.byte)
    ELSE IF ins.kind = "reset" THEN reset(p)
    ELSE EnterWait(p, ret, startTime)

\* Display::begin up to the call of initDisplay
Begin ==
    /\ pc = "panel"
    /\ panel.pc = "off"
    /\ panel' = [panel EXCEPT !.cs = "HIGH", !.dc = "HIGH", !.rst = "HIGH",
                              !.pc = "init", !.i = 1, !.op = "init", !.caller = "begin",
                              !.nXfer = 0, !.csFalls = 0, !.stream = {}]
    /\ UNCHANGED <<variant, env, progVars, buffer>>

\* the next statement of reset() and initDisplay()
InitStep ==
    /\ pc = "panel"
    /\ panel.pc = "init"
    /\ panel.i <= Len(InitProgram(variant))
    /\ \E startTime \in (IF InitProgram(variant)[panel.i].kind = "wait"
                         THEN StartTimes ELSE {0}) :
         LET ins == InitProgram(variant)[panel.i]
             p == RunStep(panel, ins, "init", startTime)
         IN  panel' = [p EXCEPT !.i = @ + 1, !.initLog = Append(@, ins)]
    /\ UNCHANGED <<variant, env, progVars, buffer>>

\* the end of initDisplay and the rest of begin(): part_001 clears the buffer and
\* returns, Display.cpp clears the buffer and calls update()
InitReturn ==
    /\ pc = "panel"
    /\ panel.pc = "init"
    /\ panel.i > Len(InitProgram(variant))
    /\ buffer' = fillScreen(COLOR_BLACK)
    /\ panel' = IF variant = "part_001"
                THEN [panel EXCEPT !.pc = "ready", !.i = 0, !.caller = "none"]
                ELSE [panel EXCEPT !.pc = "update", !.i = 0, !.op = "update",
                                   !.nXfer = 0, !.csFalls = 0, !.stream = {}]
    /\ UNCHANGED <<variant, env, progVars>>

\* main calls update() (at the end of updateFull, updateChart, showLoadingScreen).
\* update() tests nothing before it sends; calls that follow a sleep() are explored
\* in SpecSleep only.
CallUpdate ==
    /\ pc = "panel"
    /\ panel.pc = "ready"
    /\ panel.updates < MaxUpdates
    /\ panel.asleep => env = "sleep"
    /\ panel' = [panel EXCEPT !.pc = "update", !.i = 0, !.op = "update", !.caller = "main",
                              !.nXfer = 0, !.csFalls = 0, !.stream = {},
                              !.prevUpdate = NoUpdate]
    /\ UNCHANGED <<variant, env, progVars, buffer>>

\* a variant of update() whose first loop starts at byte 1
UpdateCmd10ThenByteOne ==
    /\ pc = "panel"
    /\ panel.pc = "update"
    /\ panel' = [sendCommand(panel, 16) EXCEPT !.pc = "black", !.i = 1]
    /\ UNCHANGED <<variant, env, progVars, buffer>>

\* update(): sendCommand(0x10)
UpdateCmd10 ==
    /\ pc = "panel"
    /\ panel.pc = "update"
    /\ panel' = [sendCommand(panel, 16) EXCEPT !.pc = "black", !.i = 0]
    /\ UNCHANGED <<variant, env, progVars, buffer>>

\* update(): one turn of the loop that sends _buffer
UpdateBlack ==
    /\ pc = "panel"
    /\ panel.pc = "black"
    /\ panel.i < BufferSize
    /\ panel' = [sendData(panel, ByteAt(buffer, panel.i)) EXCEPT
                   !.i = @ + 1,
                   !.pc = IF panel.i + 1 < BufferSize THEN "black" ELSE "cmd13"]
    /\ UNCHANGED <<variant, env, progVars, buffer>>

\* update(): sendCommand(0x13)
UpdateCmd13 ==
    /\ pc = "panel"
    /\ panel.pc = "cmd13"
    /\ panel' = [sendCommand(panel, 19) EXCEPT !.pc = "red", !.i = 0]
    /\ UNCHANGED <<variant, env, progVars, buffer>>

\* update(): one turn of the loop that sends the zeros of the second plane
UpdateRed ==
    /\ pc = "panel"
    /\ panel.pc = "red"
    /\ panel.i < BufferSize
    /\ panel' = [sendData(panel, 0) EXCEPT
                   !.i = @ + 1,
                   !.pc = IF panel.i + 1 < BufferSize THEN "red" ELSE "cmd12"]
    /\ UNCHANGED <<variant, env, progVars, buffer>>

\* a variant of update() that clears the framebuffer once it is sent
UpdateCmd12ClearingBuffer ==
    /\ pc = "panel"
    /\ panel.pc = "cmd12"
    /\ \E startTime \in StartTimes :
         panel' = EnterWait(sendCommand(panel, 18), "update", startTime)
    /\ buffer' = fillScreen(COLOR_BLACK)
    /\ UNCHANGED <<variant, env, progVars>>

\* update(): sendCommand(0x12) and the call of waitUntilIdle
UpdateCmd12 ==
    /\ pc = "panel"
    /\ panel.pc = "cmd12"
    /\ \E startTime \in StartTimes :
         panel' = EnterWait(sendCommand(panel, 18), "update", startTime)
    /\ UNCHANGED <<variant, env, progVars, buffer>>


\* d > c for an unsigned long d and a constant 0 <= c < 2^31
U32Above(d, c) == d < 0 \/ d > c

\* what update() hands back to its caller: it is declared void
UpdateResult(outcome) == "void"

\* waitUntilIdle returns to the statement after its call; `outcome` says whether the
\* pin went LOW ("idle") or the 5 s ran out ("timeout", part_001 only, where the one
\* thing done about it is a line on Serial).  update() returns right after its wait.
WaitReturn(p, outcome) ==
    LET q == [p EXCEPT !.polls = 0, !.start = 0, !.elapsed = 0, !.ret = "none"]
    IN  IF p.ret = "update"
        THEN [q EXCEPT !.pc = "ready", !.caller = "none",
                       !.updates = IF p.caller = "main" THEN @ + 1 ELSE @,
                       !.prevUpdate = p.lastUpdate,
                       !.lastUpdate = [len |-> p.nXfer, stream |-> p.stream,
                                       wait |-> outcome,
                                       result |-> UpdateResult(outcome),
                                       draws |-> p.draws]]
        ELSE [q EXCEPT !.pc = p.ret]

\* one turn of the loop of waitUntilIdle: digitalRead(_busy_pin), delay(10) and, in
\* part_001 only, the timeout test.  Every delay(10) is taken to last 10 ms.
WaitTurn(v, p, busy) ==
    LET polled == [p EXCEPT !.polls = @ + 1]
        elapsed == p.elapsed + POLL_DELAY
        millis == U32Add(p.start, elapsed)
    IN  IF busy = "LOW" THEN WaitReturn(polled, "idle")
        ELSE IF v = "part_001" /\ U32Above(U32Sub(millis, p.start), WAIT_TIMEOUT)
        THEN WaitReturn(polled, "timeout")
        ELSE [polled EXCEPT !.elapsed = elapsed]

\* waitUntilIdle, one poll of the busy pin; the pin reads whatever the panel drives
Poll ==
    /\ pc = "panel"
    /\ panel.pc = "wait"
    /\ panel.polls < PollCap
    /\ \E busy \in {"LOW", "HIGH"} : panel' = WaitTurn(variant, panel, busy)
    /\ UNCHANGED <<variant, env, progVars, buffer>>

\* main calls sleep()
CallSleep ==
    /\ pc = "panel"
    /\ panel.pc = "ready"
    /\ panel.sleeps < MaxSleeps
    /\ panel' = [panel EXCEPT !.pc = "sleep", !.i = 1, !.op = "sleep", !.caller = "main",
                              !.nXfer = 0, !.csFalls = 0, !.stream = {}]
    /\ UNCHANGED <<variant, env, progVars, buffer>>

\* the next statement of sleep(); after the last one the panel is in deep sleep and
\* sleep() returns.  The class keeps no record of it: `asleep` is the panel's state.
SleepStep ==
    /\ pc = "panel"
    /\ panel.pc = "sleep"
    /\ \E startTime \in (IF SleepProgram[panel.i].kind = "wait" THEN StartTimes ELSE {0}) :
         LET p == RunStep(panel, SleepProgram[panel.i], "sleep", startTime)
         IN  panel' = IF panel.i = Len(SleepProgram)
                      THEN [p EXCEPT !.i = 0, !.pc = "ready", !.caller = "none",
                                     !.asleep = TRUE, !.sleeps = @ + 1]
                      ELSE [p EXCEPT !.i = @ + 1]
    /\ UNCHANGED <<variant, env, progVars, buffer>>

InitPanel ==
    /\ variant \in Variants
    /\ env = "panel"
    /\ pc = "panel"
    /\ co2History = [i \in 0..(DATA_HISTORY_SIZE - 1) |-> 0]
    /\ historyIndex = 0
    /\ Statics
    /\ buffer = BufferNew
    /\ panel = PanelOff

NextPanel ==
    \/ Begin
    \/ InitStep
    \/ InitReturn
    \/ DrawPixel
    \/ CallUpdate
    \/ UpdateCmd10
    \/ UpdateBlack
    \/ UpdateCmd13
    \/ UpdateRed
    \/ UpdateCmd12
    \/ Poll
    \/ CallSleep
    \/ SleepStep

SpecPanel == InitPanel /\ [][NextPanel]_vars

\* the driver with calls of update() after sleep(), and no drawing
InitSleep ==
    /\ variant \in Variants
    /\ env = "sleep"
    /\ pc = "panel"
    /\ co2History = [i \in 0..(DATA_HISTORY_SIZE - 1) |-> 0]
    /\ historyIndex = 0
    /\ Statics
    /\ buffer = BufferNew
    /\ panel = PanelOff

NextSleep ==
    \/ Begin
    \/ InitStep
    \/ InitReturn
    \/ CallUpdate
    \/ UpdateCmd10
    \/ UpdateBlack
    \/ UpdateCmd13
    \/ UpdateRed
    \/ UpdateCmd12
    \/ Poll
    \/ CallSleep
    \/ SleepStep

SpecSleep == InitSleep /\ [][NextSleep]_vars

(* ------------------------------------------------------------------ *)
(* The program near the wrap of millis()                              *)
(* ------------------------------------------------------------------ *)
\* millis() at the start of the run: 2^32 - 1000 * WrapLeadSeconds
WrapStart == 0 - WrapLeadSeconds * 1000

\* the time since the last sensor tick at the start of the run
LastTickAges == {LOOP_DELAY, 16 * LOOP_DELAY}

\* the history store after DATA_HISTORY_SIZE + 2 appends of the default sample
WrapStore ==
    [co2 |-> [i \in 0..(DATA_HISTORY_SIZE - 1) |-> DEFAULT_CO2],
     index |-> (DATA_HISTORY_SIZE + 2) % DATA_HISTORY_SIZE,
     temperature |-> [i \in 0..(MINI_HISTORY_SIZE - 1) |-> DEFAULT_TEMPERATURE],
     humidity |-> [i \in 0..(MINI_HISTORY_SIZE - 1) |-> DEFAULT_HUMIDITY],
     miniIndex |-> (DATA_HISTORY_SIZE + 2) % MINI_HISTORY_SIZE,
     miniCount |-> MINI_HISTORY_SIZE]

\* loop() after 49.7 days, the history ring full of readings of 400 ppm.  Either the sensor
\* has settled and the last history append (with its refresh) was less than 5 minutes ago,
\* or the sensor is connected but has delivered no valid reading since its last begin()
\* and nothing was drawn for almost 6 hours.
InitWrapLoop ==
    /\ pc = "loop"
    /\ now = WrapStart
    /\ \E age \in LastTickAges : lastDataUpdateTime = WrapStart - age
    /\ \E settled \in BOOLEAN :
         /\ co2Sensor = IF settled THEN SensorSettled
                                   ELSE [SensorNew EXCEPT !.connected = TRUE]
         /\ lastHistoryUpdateTime =
                WrapStart - (IF settled THEN HISTORY_INTERVAL ELSE FULL_REFRESH_INTERVAL)
                          + WrapDueSeconds * 1000
         /\ readRun = IF settled THEN MIN_VALID_READINGS ELSE 0
         /\ validsSinceInit = IF settled THEN MIN_VALID_READINGS ELSE 0
    /\ lastFullUpdateTime = lastHistoryUpdateTime
    /\ currentData = SensorData(DEFAULT_CO2, DEFAULT_TEMPERATURE, DEFAULT_HUMIDITY)
    /\ lastDisplayedData = currentData
    /\ co2History = WrapStore.co2
    /\ historyIndex = WrapStore.index
    /\ temperatureHistory = WrapStore.temperature
    /\ humidityHistory = WrapStore.humidity
    /\ miniHistoryIndex = WrapStore.miniIndex
    /\ miniHistoryCount = WrapStore.miniCount
    /\ lastBuzzerTime = 0
    /\ buzzerActive = FALSE
    /\ rendered = updateFull(variant, currentData, co2History, historyIndex, TRUE, HistoryNow)
    /\ appended = <<>>
    /\ lastIter = [op |-> "boot", tick |-> FALSE, io |-> "none", updated |-> FALSE,
                   appended |-> FALSE, refreshes |-> 0, reconnect |-> "none",
                   alarm |-> FALSE, buzzerOff |-> FALSE, alarms |-> 0,
                   history |-> FALSE, forced |-> FALSE, forceds |-> 0]
    /\ buffer = BufferNew
    /\ panel = PanelOff

\* update() called on the initialised driver, its busy wait starting at one of StartTimes
InitWrapPanel ==
    /\ pc = "panel"
    /\ co2History = [i \in 0..(DATA_HISTORY_SIZE - 1) |-> 0]
    /\ historyIndex = 0
    /\ Statics
    /\ buffer = BufferNew
    /\ panel = PanelReady

InitWrap ==
    /\ variant \in Variants
    /\ env = "wrap"
    /\ InitWrapLoop \/ InitWrapPanel

NextWrap ==
    \/ Loop
    \/ LoopIdle
    \/ CallUpdate
    \/ UpdateCmd10
    \/ UpdateBlack
    \/ UpdateCmd13
    \/ UpdateRed
    \/ UpdateCmd12
    \/ Poll

SpecWrap == InitWrap /\ [][NextWrap]_vars

(* ------------------------------------------------------------------ *)
(* Display: drawFastVLine, drawFastHLine, fillRect, drawRect          *)
(* ------------------------------------------------------------------ *)
INT16_MAX == 32767

\* the conversion of an int to int16_t (the compiler keeps the low 16 bits)
Int16(v) == ((v + INT16_MAX + 1) % (2 * (INT16_MAX + 1))) - (INT16_MAX + 1)

PrimCall(fn, x, y, w, h) ==
    [NoCall EXCEPT !.fn = fn, !.x = x, !.y = y, !.w = w, !.h = h, !.color = COLOR_WHITE]

\* calls at and across the edges of the panel, with empty and negative extents
EdgeXs == {-2, 0, WIDTH - 2}

EdgeYs == {-1, 0, HEIGHT - 1}

EdgeExtents == {-1, 0, 3}

\* calls whose x + w or y + h is above INT16_MAX
FarCalls ==
    {PrimCall("drawFastHLine", INT16_MAX - 1, 0, 3, 1),
     PrimCall("drawFastVLine", -1, INT16_MAX - 1, 1, 3),
     PrimCall("fillRect", -1, INT16_MAX, 1, 1),
     PrimCall("drawRect", -3, INT16_MAX - 1, 2, 3)}

PrimCalls ==
    {PrimCall("drawFastHLine", x, y, w, 1) : x \in EdgeXs, y \in EdgeYs, w \in EdgeExtents}
    \cup {PrimCall("drawFastVLine", x, y, 1, h) : x \in EdgeXs, y \in EdgeYs, h \in EdgeExtents}
    \cup {PrimCall("fillRect", x, y, w, h) :
              x \in EdgeXs, y \in EdgeYs, w \in EdgeExtents, h \in {1, 2}}
    \cup {PrimCall("drawRect", x, y, 3, h) : x \in EdgeXs, y \in EdgeYs, h \in {1, 3}}
    \cup FarCalls

\* the line a call is drawing: the arguments of drawFastHLine / drawFastVLine, those of
\* the calls drawRect makes being converted to int16_t
LineOf(c) ==
    IF c.fn = "drawFastHLine" THEN [dir |-> "h", x |-> c.x, y |-> c.y, n |-> c.w]
    ELSE IF c.fn = "drawFastVLine" THEN [dir |-> "v", x |-> c.x, y |-> c.y, n |-> c.h]
    ELSE IF c.part = 1 THEN [dir |-> "h", x |-> c.x, y |-> c.y, n |-> c.w]
    ELSE IF c.part = 2 THEN [dir |-> "h", x |-> c.x, y |-> Int16(c.y + c.h - 1), n |-> c.w]
    ELSE IF c.part = 3 THEN [dir |-> "v", x |-> c.x, y |-> c.y, n |-> c.h]
    ELSE [dir |-> "v", x |-> Int16(c.x + c.w - 1), y |-> c.y, n |-> c.h]

\* the first value of the loop counter of a line
LineStart(l) == IF l.dir = "h" THEN l.x ELSE l.y

\* the entry of a primitive: the counter of its first loop is initialised
EnterCall(c, b) ==
    IF c.fn = "fillRect" THEN [c EXCEPT !.before = b, !.i = c.x]
    ELSE LET c1 == [c EXCEPT !.before = b, !.part = 1]
         IN  [c1 EXCEPT !.i = LineStart(LineOf(c1))]

\* drawFastHLine / drawFastVLine: the loop test and, when it holds, drawPixel and i++.
\* i < x + w compares in int; i++ stores the incremented value in the int16_t counter.
\* When the loop is left the function returns: to its caller, or to drawRect, which
\* makes its next call.
LineStep ==
    /\ pc = "panel"
    /\ panel.pc = "prim"
    /\ panel.call.fn \in {"drawFastHLine", "drawFastVLine", "drawRect"}
    /\ LET c == panel.call
           l == LineOf(c)
       IN  IF c.i < LineStart(l) + l.n
           THEN LET r == IF l.dir = "h" THEN drawPixel(buffer, c.i, l.y, c.color)
                                        ELSE drawPixel(buffer, l.x, c.i, c.color)
                IN  /\ buffer' = r.buffer
                    /\ panel' = [panel EXCEPT !.call.i = Int16(c.i + 1), !.oob = @ \/ r.oob]
           ELSE /\ buffer' = buffer
                /\ panel' = IF c.fn = "drawRect" /\ c.part < 4
                            THEN LET c1 == [c EXCEPT !.part = @ + 1]
                                 IN  [panel EXCEPT !.call = [c1 EXCEPT !.i = LineStart(LineOf(c1))]]
                            ELSE [panel EXCEPT !.pc = "ready", !.draws = @ + 1]
    /\ UNCHANGED <<variant, env, progVars>>

\* fillRect: one loop test of the outer loop (i over the columns) or of the inner loop
\* (j over the rows), with the body or the increment that follows it
FillRectStep ==
    /\ pc = "panel"
    /\ panel.pc = "prim"
    /\ panel.call.fn = "fillRect"
    /\ LET c == panel.call
       IN  IF ~c.inner
           THEN /\ buffer' = buffer
                /\ panel' = IF c.i < c.x + c.w
                            THEN [panel EXCEPT !.call.inner = TRUE, !.call.j = c.y]
                            ELSE [panel EXCEPT !.pc = "ready", !.draws = @ + 1]
           ELSE IF c.j < c.y + c.h
           THEN LET r == drawPixel(buffer, c.i, c.j, c.color)
                IN  /\ buffer' = r.buffer
                    /\ panel' = [panel EXCEPT !.call.j = Int16(c.j + 1), !.oob = @ \/ r.oob]
           ELSE /\ buffer' = buffer
                /\ panel' = [panel EXCEPT !.call.inner = FALSE, !.call.i = Int16(c.i + 1)]
    /\ UNCHANGED <<variant, env, progVars>>

\* a primitive is entered on the initialised driver with a black framebuffer; the two
\* copies of the class have the same primitives
InitPrim ==
    /\ variant = "part_001"
    /\ env = "prim"
    /\ pc = "panel"
    /\ co2History = [i \in 0..(DATA_HISTORY_SIZE - 1) |-> 0]
    /\ historyIndex = 0
    /\ Statics
    /\ buffer = fillScreen(COLOR_BLACK)
    /\ \E c \in PrimCalls :
         panel = [PanelReady EXCEPT !.pc = "prim", !.call = EnterCall(c, buffer)]

NextPrim == LineStep \/ FillRectStep

\* the processor goes on executing the loop it is in
SpecPrim == InitPrim /\ [][NextPrim]_vars /\ WF_vars(NextPrim)


(* ------------------------------------------------------------------ *)
(* Properties of the panel driver                                     *)
(* ------------------------------------------------------------------ *)
\* the most polls a wait with the 5 s timeout can make
MaxWaitPolls == (WAIT_TIMEOUT \div POLL_DELAY) + 1

\* C3: every busy-wait returns after a bounded number of polls of the busy pin, even
\* when the pin reads HIGH on every poll, in both copies of waitUntilIdle.
C3_WaitBounded == panel.polls <= MaxWaitPolls

\* the number of bytes update() sends
UpdateLen == 2 * BufferSize + 3

\* the n-th byte of a refresh: 0x10, the buffer, 0x13, zeros, 0x12
RefreshByte(n) ==
    IF n = 1 THEN Cmd(16)
    ELSE IF n <= BufferSize + 1 THEN Data(ByteAt(buffer, n - 2))
    ELSE IF n = BufferSize + 2 THEN Cmd(19)
    ELSE IF n <= 2 * BufferSize + 2 THEN Data(0)
    ELSE Cmd(18)

\* C8: update() sends 0x10, the 38880 framebuffer bytes in index order, 0x13, 38880
\* zero bytes and 0x12, nothing else, and polls the busy pin only after 0x12.
C8_UpdateStream ==
    panel.op = "update" =>
        /\ panel.nXfer <= UpdateLen
        /\ panel.nXfer >= 1 =>
             /\ panel.lastXfer.kind = RefreshByte(panel.nXfer).kind
             /\ panel.lastXfer.byte = RefreshByte(panel.nXfer).byte
        /\ (panel.pc = "wait" \/ panel.polls > 0) => panel.nXfer = UpdateLen
        /\ panel.pc \in {"ready", "sleep", "asleep"} => panel.nXfer = UpdateLen

\* C8 witness: main's update() of a buffer whose last byte holds a drawn pixel has sent
\* everything and polls the busy pin
C8_RefreshSent ==
    /\ panel.op = "update" /\ panel.caller = "main"
    /\ panel.pc = "wait" /\ panel.polls = 2
    /\ panel.nXfer = UpdateLen
    /\ ByteAt(buffer, BufferSize - 1) = 1

\* initDisplay has returned
InitReturned ==
    /\ panel.pc \notin {"off", "init"}
    /\ ~(panel.pc = "wait" /\ panel.ret = "init")

\* C9: initialisation is a reset pulse followed by exactly 0x06 17 17 28 17, 0x04 and a
\* busy wait, 0x00 0F, 0x50 20 07, 0x61 02 88 01 E0, in every copy of initDisplay.
C9_InitSequence ==
    InitReturned =>
        panel.initLog = <<Step("reset"),
                          Cmd(6), Data(23), Data(23), Data(40), Data(23),
                          Cmd(4), Step("wait"),
                          Cmd(0), Data(15),
                          Cmd(80), Data(32), Data(7),
                          Cmd(97), Data(2), Data(136), Data(1), Data(224)>>

\* C10: at every byte transfer chip-select is LOW and DC is LOW for a command, HIGH for
\* data; chip-select is HIGH after every byte, so it is HIGH between any two statements
\* of the driver and every byte has a chip-select assertion of its own.
C10_PerByteFraming ==
    /\ panel.lastXfer.kind = "cmd" => panel.lastXfer.cs = "LOW" /\ panel.lastXfer.dc = "LOW"
    /\ panel.lastXfer.kind = "data" => panel.lastXfer.cs = "LOW" /\ panel.lastXfer.dc = "HIGH"
    /\ panel.pc # "off" => panel.cs = "HIGH"
    /\ panel.csFalls = panel.nXfer

\* C10 witness: a data byte sent right after another data byte
C10_DataAfterData ==
    /\ panel.op = "update" /\ panel.nXfer = 3 /\ panel.csFalls = 3
    /\ panel.lastXfer.kind = "data" /\ panel.lastXfer.dc = "HIGH" /\ panel.cs = "HIGH"

(* ------------------------------------------------------------------ *)
(* Repeated refreshes, timeouts and sleep                             *)
(* ------------------------------------------------------------------ *)
\* update() is running: between its call and its return
InUpdate ==
    \/ panel.pc \in {"update", "black", "cmd13", "red", "cmd12"}
    \/ panel.pc = "wait" /\ panel.ret = "update"

\* the last two update() calls had no drawing call between them
NoDrawBetween ==
    /\ panel.prevUpdate.len > 0
    /\ panel.lastUpdate.draws = panel.prevUpdate.draws

\* C11: two consecutive update() calls with no drawing call between them send the same
\* sequence of command and data bytes, however the busy waits of the two end (pin LOW
\* or timeout), and no step of update() changes a byte of the framebuffer.
C11_RepeatedUpdateSameBytes ==
    /\ [](NoDrawBetween =>
            /\ panel.lastUpdate.len = panel.prevUpdate.len
            /\ panel.lastUpdate.stream = panel.prevUpdate.stream)
    /\ [][InUpdate => buffer' = buffer]_vars

\* C11 witness: a second update() of a buffer holding a drawn pixel has returned, the
\* first one having run into the timeout, with no drawing call between the two
C11_SecondAfterTimeout ==
    /\ NoDrawBetween
    /\ panel.pc = "ready" /\ panel.updates = 2
    /\ panel.prevUpdate.wait = "timeout" /\ panel.lastUpdate.wait = "idle"
    /\ panel.lastUpdate.len = UpdateLen
    /\ ByteAt(buffer, BufferSize - 1) = 1

\* C12: a busy-wait timeout during a refresh is surfaced to the caller of update(): what
\* update() hands back after a refresh whose wait timed out differs from what it hands
\* back after a completed refresh, and update() returns in both cases.
C12_TimeoutSurfaced ==
    panel.lastUpdate.wait = "timeout" =>
        /\ panel.lastUpdate.len = UpdateLen
        /\ panel.lastUpdate.result # UpdateResult("idle")

\* C13: sleep() sends 0x02, waits, then sends 0x07 and the data byte 0xA5; from then on
\* the panel is asleep and, until a reset(), no update() sends frame data to it.
C13_NoRefreshAsleep ==
    /\ (panel.op = "sleep" /\ panel.pc = "ready") =>
          /\ panel.asleep
          /\ panel.nXfer = 3
          /\ panel.stream = {[n |-> 1, kind |-> "cmd", byte |-> 2],
                             [n |-> 2, kind |-> "cmd", byte |-> 7],
                             [n |-> 3, kind |-> "data", byte |-> 165]}
    /\ panel.asleep => ~(panel.op = "update" /\ panel.lastXfer.kind = "data")

(* ------------------------------------------------------------------ *)
(* Properties of the history store and of the charts                  *)
(* ------------------------------------------------------------------ *)
\* the slots of co2History written by an append so far
WrittenSlots == {SlotOf(j) : j \in 0..(Len(appended) - 1)}

\* C14: a CO2 history slot holds 0 exactly when no append has written it: currentData
\* never holds a CO2 value of 0, so no append stores 0, and the chart draws the
\* no-data placeholder in exactly the bars that read a never-written slot.
C14_ZeroIffNeverWritten ==
    /\ currentData.co2 > 0
    /\ \A j \in 1..Len(appended) : appended[j].co2 > 0
    /\ \A slot \in 0..(DATA_HISTORY_SIZE - 1) :
         co2History[slot] = 0 <=> slot \notin WrittenSlots
    /\ rendered.chart # <<>> =>
         \A i \in 1..DATA_HISTORY_SIZE :
            LET bar == rendered.chart[1].bars[i]
            IN  bar.kind = "placeholder" <=> bar.idx \notin WrittenSlots

\* C14 witness: an append made right after the sensor delivered a CO2 reading of 0; the
\* slot it wrote holds the reading before that one
C14_AppendAfterZeroReading ==
    /\ lastIter.appended /\ lastIter.io = "reading" /\ ~lastIter.updated
    /\ Len(appended) = 1
    /\ co2History[0] = appended[1].co2 /\ co2History[0] > 0 /\ co2History[1] = 0
    /\ rendered.chart # <<>>

\* the valid entries of the CO2 history
ValidEntries == {co2History[i] : i \in 0..(DATA_HISTORY_SIZE - 1)} \ {0}

C16_EmptyHistoryRange ==
    \A c \in DOMAIN rendered.chart :
        ValidEntries = {} =>
            /\ ~rendered.chart[c].hasValidData
            /\ rendered.chart[c].lo = 400
            /\ rendered.chart[c].hi = 1000

\* C16 witness: an empty history has been rendered a second time
C16_EmptyRenderedTwice ==
    /\ pc = "drawn" /\ lastIter.refreshes = 2
    /\ \A i \in 0..(DATA_HISTORY_SIZE - 1) : co2History[i] = 0
    /\ rendered.chart # <<>>
    /\ rendered.chart[1].lo = 400 /\ rendered.chart[1].hi = 1000

\* C17: rendering leaves the history alone: a step of updateFull or updateChart changes
\* none of co2History, historyIndex, temperatureHistory, humidityHistory,
\* miniHistoryIndex and miniHistoryCount, on the first render and on every later one.
C17_RenderKeepsHistory ==
    [][lastIter'.refreshes # lastIter.refreshes =>
          UNCHANGED <<co2History, historyIndex, temperatureHistory, humidityHistory,
                      miniHistoryIndex, miniHistoryCount>>]_vars

\* C17 witness: a history with valid entries and wrapped trend rings has been rendered
\* twice, the second time by updateFull, and both trend charts are on the screen
C17_RenderedTwice ==
    /\ pc = "drawn" /\ lastIter.refreshes = 2 /\ lastIter.op = "updateFull"
    /\ ValidEntries # {}
    /\ miniHistoryCount = MINI_HISTORY_SIZE /\ miniHistoryIndex = 1
    /\ Len(rendered.trend) = 2
    /\ Len(rendered.trend[1].bars) = MINI_HISTORY_SIZE

\* C18 as stated: after k appends miniHistoryIndex is k mod 12 and miniHistoryCount is
\* min(k, 12), never more than the number of samples appended.
C18_CountIsAppends ==
    LET k == Len(appended)
    IN  /\ miniHistoryIndex = k % MINI_HISTORY_SIZE
        /\ miniHistoryCount = getMin(k, MINI_HISTORY_SIZE)
        /\ miniHistoryCount <= k

\* C18: after setup() and k appends miniHistoryIndex is k mod 12 and miniHistoryCount is
\* min(k + 1, 12): setup() fills the rings with the first sensor data and sets the count
\* to 1, so the count is one ahead of the appends until it stops at 12; it is 0 before
\* setup() and never above 12.
C18_CountIsAppendsPlusSeed ==
    LET k == Len(appended)
    IN  /\ miniHistoryIndex = k % MINI_HISTORY_SIZE
        /\ miniHistoryCount = IF pc = "boot" THEN 0 ELSE getMin(k + 1, MINI_HISTORY_SIZE)
        /\ miniHistoryCount <= MINI_HISTORY_SIZE

\* C18 witness: the thirteenth append has wrapped the trend rings
C18_TrendWrapped ==
    /\ lastIter.appended /\ Len(appended) = MINI_HISTORY_SIZE + 1
    /\ miniHistoryIndex = 1 /\ miniHistoryCount = MINI_HISTORY_SIZE
    /\ temperatureHistory[0] = appended[MINI_HISTORY_SIZE + 1].temperature

\* C19: in the temperature and the humidity trend chart the bars follow the recency of
\* the samples, as found from the ring cursor: the bar at the newest end shows the
\* sample appended last, the next bar the one appended before it, and so on, whichever
\* end of the chart (bar 0 at the right, or the last bar at the left) is the newest.
C19_TrendBarsByRecency ==
    \A c \in DOMAIN rendered.trend :
        LET bars == rendered.trend[c].bars
            k == Len(appended)
            sample(j) == IF c = 1 THEN appended[j].temperature ELSE appended[j].humidity
            n == getMin(k, Len(bars))
        IN  \/ \A i \in 0..(n - 1) : bars[i + 1].value = sample(k - i)
            \/ \A i \in 0..(n - 1) : bars[Len(bars) - i].value = sample(k - i)

\* C20: two successive history appends are at least 30 minutes (1800000 ms) apart, so
\* that the 48 slots of the CO2 history reach back 24 hours: the newest of 48 entries is
\* at least 47 half hours younger than the oldest.
C20_AppendsHalfHourApart ==
    LET k == Len(appended)
    IN  /\ \A j \in 2..k : U32Sub(appended[j].at, appended[j - 1].at) >= 1800000
        /\ k >= DATA_HISTORY_SIZE =>
             U32Sub(appended[k].at, appended[k - DATA_HISTORY_SIZE + 1].at)
                 >= (DATA_HISTORY_SIZE - 1) * 1800000

(* ------------------------------------------------------------------ *)
(* Reconnection, refreshes and the buzzer                             *)
(* ------------------------------------------------------------------ *)
\* C21: every sensor tick of loop() that finds the sensor not connected attempts a
\* reconnection; an attempt whose begin() succeeds leaves the valid-reading count at what
\* the update() of the same tick makes of 0; and once no I2C operation fails any more, a
\* sensor that is not connected is connected again after a reconnection.
C21_ReconnectsOnceHealed ==
    /\ [][(lastIter'.op = "loop" /\ lastIter'.tick /\ ~co2Sensor.connected)
              => lastIter'.reconnect # "none"]_vars
    /\ [][lastIter'.reconnect = "begun"
              => co2Sensor'.validReadingCount
                     = (IF lastIter'.updated /\ co2Sensor'.connected THEN 1 ELSE 0)]_vars
    /\ (Healed(now) /\ ~co2Sensor.connected)
           ~> (co2Sensor.connected /\ lastIter.reconnect = "begun")

\* C21 witness: a sensor that failed in setup() or later has just been reconnected, all
\* I2C operations succeeding by now, and its first reading since counts as number 1
C21_Reconnected ==
    /\ Healed(now) /\ lastIter.op = "loop" /\ lastIter.reconnect = "begun"
    /\ co2Sensor.connected /\ co2Sensor.validReadingCount = 1
    /\ validsSinceInit = 1

\* C22: every refresh issued by an iteration of loop() has a trigger: the new reading
\* differs significantly from the values displayed last, or the iteration appended to the
\* history, or 6 hours have passed since the last full refresh, or the sensor's connected
\* state differs from the one shown by the previous refresh.
C22_RefreshOnlyWhenNeeded ==
    [][(lastIter'.op = "loop" /\ lastIter'.refreshes > 0) =>
          \/ lastIter'.updated /\ significantChange(currentData', lastDisplayedData)
          \/ lastIter'.appended
          \/ FullRefreshDue(now, lastFullUpdateTime)
          \/ co2Sensor'.connected # (rendered.screen = "values")]_vars

(* ------------------------------------------------------------------ *)
(* Divisors, the chart area and the guide line                        *)
(* ------------------------------------------------------------------ *)
\* C23: no chart drawn divides by zero: the divisor of every bar width (the history
\* size, validCount, miniHistoryCount) is at least 1, and the span max - min of every
\* scaling (map() in drawBarChart for the bars and the alarm line, map() in
\* drawCO2MiniChart, the normalisation in drawMiniChart) is not 0.
C23_NoDivisionByZero ==
    /\ \A c \in DOMAIN rendered.chart :
         LET r == rendered.chart[c]
         IN  /\ DATA_HISTORY_SIZE >= 1
             /\ r.hi # r.lo
             /\ ~r.line.div0
             /\ \A k \in DOMAIN r.bars : ~r.bars[k].div0
    /\ \A c \in DOMAIN rendered.mini :
         LET r == rendered.mini[c]
         IN  /\ r.validCount >= 1
             /\ r.hi # r.lo
             /\ \A k \in DOMAIN r.bars : ~r.bars[k].div0
    /\ \A c \in DOMAIN rendered.trend :
         LET r == rendered.trend[c]
         IN  /\ r.count >= 1
             /\ ~r.flat => r.max # r.min

\* C23 witness: the screen drawn for a history with a single valid entry, right after
\* setup() has seeded the trend rings: every chart is there and the trend charts have
\* one bar
C23_SingleEntryRendered ==
    /\ pc = "drawn"
    /\ Cardinality({i \in 0..(DATA_HISTORY_SIZE - 1) : co2History[i] > 0}) = 1
    /\ Len(rendered.chart) = 1 /\ Len(rendered.mini) = 1 /\ Len(rendered.trend) = 2
    /\ rendered.trend[1].count = 1 /\ Len(rendered.trend[1].bars) = 1
    /\ \E k \in DOMAIN rendered.mini[1].bars : rendered.mini[1].bars[k].value > 0

\* the rows of bar position k lit over the whole width of the bar, and those lit in its
\* first and last column
FullRows(v, area, k) == UNION {StrokeFull(v, st) : st \in area.bars[k]}

SideRows(v, area, k) == UNION {StrokeSides(v, st) : st \in area.bars[k]}

\* Two chart areas show the same pixels.  The reference line lights MidRow in both.  The
\* dashes of an alarm line light pixels between the bars, so the rows of the lines must
\* agree; some inner column of every bar is between two dashes, so the rows lit over the
\* whole width must agree; in the first and the last column of a bar the rows must agree
\* except where a dash lights that column anyway.
SamePixels(v, a, b) ==
    /\ a.lines = b.lines
    /\ \A k \in 1..DATA_HISTORY_SIZE :
         /\ FullRows(v, a, k) \ {MidRow(v)} = FullRows(v, b, k) \ {MidRow(v)}
         /\ \A x \in {BarLeft(k - 1), BarRight(k - 1)} :
              LET lit == {MidRow(v)} \cup (IF DashLit(x) THEN a.lines ELSE {})
              IN  SideRows(v, a, k) \ lit = SideRows(v, b, k) \ lit

\* C24: after updateChart(h, idx) the chart area holds exactly the pixels that drawing
\* the chart of (h, idx) onto an all-black framebuffer gives, whatever was drawn there
\* before.
C24_RedrawLeavesNoStaleBars ==
    (lastIter.op = "updateChart" /\ rendered.chart # <<>>) =>
        SamePixels(variant, rendered.area, ChartInk(rendered.chart[1]))

\* C25: the CO2 trend chart drawn after an append scans and draws exactly the 12 readings
\* appended last (all of them while there are fewer): bar 0, the right-most, shows the
\* reading appended last and bar i the one appended i appends before it, a position with
\* no such reading stays empty, and the scale is taken from these readings alone.
C25_TrendShowsLatestTwelve ==
    (lastIter.appended /\ rendered.mini # <<>>) =>
        LET k == Len(appended)
            bars == rendered.mini[1].bars
            recent == {appended[j].co2 : j \in getMax(1, k - MINI_HISTORY_SIZE + 1)..k}
        IN  /\ Len(bars) = MINI_HISTORY_SIZE
            /\ \A i \in 0..(MINI_HISTORY_SIZE - 1) :
                 IF i < k
                 THEN bars[i + 1].kind # "none" /\ bars[i + 1].value = appended[k - i].co2
                 ELSE bars[i + 1].kind = "none"
            /\ rendered.mini[1].lo = getMax(0, SetMin(recent) - 100)
            /\ rendered.mini[1].hi = SetMax(recent) + 100

(* ------------------------------------------------------------------ *)
(* The buzzer                                                         *)
(* ------------------------------------------------------------------ *)
\* C26: on every sensor tick that leaves the sensor connected and currentData.co2 at or
\* above the alarm threshold, the buzzer is switched on if it has never been switched on
\* since boot or was switched on at least 10 minutes before; and an activation that is
\* not the first comes at least 10 minutes after the one before it.
C26_AlarmWhenDue ==
    /\ [][(lastIter'.op = "loop" /\ lastIter'.tick /\ co2Sensor'.connected
             /\ currentData'.co2 >= CO2_ALARM_THRESHOLD
             /\ (lastIter.alarms = 0
                   \/ U32AtLeast(Elapsed(now, lastBuzzerTime), BUZZER_INTERVAL)))
              => (lastIter'.alarm /\ lastIter'.alarms = lastIter.alarms + 1)]_vars
    /\ [][(lastIter'.alarm /\ lastIter.alarms > 0)
              => U32AtLeast(Elapsed(lastBuzzerTime', lastBuzzerTime), BUZZER_INTERVAL)]_vars

\* C27: loop() switches the buzzer off only when at least 5000 ms have really passed
\* between the activation time recorded by checkAlarm and loop()'s own time sample, and
\* a buzzer that is on is never older than the 5000 ms and one loop period.
C27_BuzzerOnFiveSeconds ==
    /\ [][lastIter'.buzzerOff => U32Sub(now, lastBuzzerTime') >= BUZZER_ON_TIME]_vars
    /\ [](buzzerActive => U32Sub(now, lastBuzzerTime) < BUZZER_ON_TIME + LOOP_DELAY)


\* C28: the dashed alarm line is drawn exactly when the alarm threshold lies within the
\* axis range [lo, hi], and it agrees with the bars: for every history value above 0, the
\* top row of its bar is at or above the row of the line if and only if the value is at or
\* above the threshold (row numbers grow downwards).
C28_GuideLineConsistentWithBars ==
    rendered.chart # <<>> =>
        LET chart == rendered.chart[1]
        IN  /\ chart.line.drawn <=> (CO2_ALARM_THRESHOLD >= chart.lo
                                     /\ CO2_ALARM_THRESHOLD <= chart.hi)
            /\ chart.line.drawn =>
                 \A k \in 1..DATA_HISTORY_SIZE :
                    chart.bars[k].value > 0 =>
                        ((BarBottom(variant) - chart.bars[k].height <= chart.line.y)
                            <=> chart.bars[k].value >= CO2_ALARM_THRESHOLD)


\* C29: across the wrap of millis() from 2^32 - 1 to 0 the sensor tick, the history append
\* and the forced refresh of loop() fire in the first iteration in which their interval has
\* elapsed, none of them earlier, and no iteration in which one of them is due passes
\* without it; the busy wait of part_001 gives up once more than 5000 ms have passed, not
\* earlier, and never goes on beyond that.  Near the wrap the times are kept as offsets
\* from it, so that the time that has really passed is the plain difference.
C29_TriggersAcrossWrap ==
    /\ [][lastIter'.op = "loop" =>
            /\ lastIter'.tick <=> (now - lastDataUpdateTime >= DATA_INTERVAL)
            /\ lastIter'.history <=> (LoopGate(co2Sensor')
                                      /\ now - lastHistoryUpdateTime >= HISTORY_INTERVAL)
            /\ lastIter'.forced => now - lastFullUpdateTime >= FULL_REFRESH_INTERVAL
            /\ now - lastFullUpdateTime >= FULL_REFRESH_INTERVAL =>
                  (lastIter'.refreshes > 0 /\ lastFullUpdateTime' = now)]_vars
    /\ [][lastIter'.op = "idle" =>
            /\ (now' - LOOP_DELAY) - lastDataUpdateTime < DATA_INTERVAL
            /\ LoopGate(co2Sensor) =>
                  (now' - LOOP_DELAY) - lastHistoryUpdateTime < HISTORY_INTERVAL
            /\ (now' - LOOP_DELAY) - lastFullUpdateTime < FULL_REFRESH_INTERVAL]_vars
    /\ [](pc = "loop" => now - lastDataUpdateTime < DATA_INTERVAL + LOOP_DELAY)
    /\ []((variant = "part_001" /\ panel.pc = "wait") => panel.elapsed <= WAIT_TIMEOUT)
    /\ [][(panel.pc = "wait" /\ panel'.pc # "wait" /\ panel'.lastUpdate.wait = "timeout") =>
             panel.elapsed + POLL_DELAY > WAIT_TIMEOUT]_vars

\* after the wrap: a sensor tick, the first history append of the run and a forced refresh
\* have fired, each measured from a time before the wrap
C29_FiredAfterWrap ==
    /\ pc = "loop"
    /\ now > 0
    /\ lastDataUpdateTime >= 0
    /\ Len(appended) = 1
    /\ appended[1].at >= 0
    /\ lastHistoryUpdateTime = appended[1].at
    /\ lastIter.forceds = 1


\* the pixel at position pos = y * WIDTH + x of a framebuffer
PixelOf(b, pos) == Bit(ByteAt(b, pos \div 8), 7 - (pos % 8))

\* the pixel (px, py) lies in the rectangle a call was asked for, clipped to the panel
InRequested(c, px, py) ==
    /\ px >= c.x /\ px < c.x + c.w /\ py >= c.y /\ py < c.y + c.h
    /\ px >= 0 /\ px < WIDTH /\ py >= 0 /\ py < HEIGHT

\* C30: drawFastHLine, drawFastVLine, fillRect and drawRect return for all int16_t
\* arguments, also when x + w or y + h is above 32767; the pixels they change all lie in
\* the requested rectangle clipped to the panel; and drawFastHLine(x, y, w) and
\* fillRect(x, y, w, 1) leave the same framebuffer: every pixel of that rectangle set, and
\* by the previous part no other pixel changed.
C30_PrimitivesTotal ==
    /\ (panel.pc = "prim") ~> (panel.pc = "ready")
    /\ [](\A idx \in DOMAIN buffer.over, k \in 0..7 :
            LET pos == idx * 8 + (7 - k)
            IN  PixelOf(buffer, pos) # PixelOf(panel.call.before, pos) =>
                    InRequested(panel.call, pos % WIDTH, pos \div WIDTH))
    /\ []((panel.pc = "ready"
           /\ (panel.call.fn = "drawFastHLine"
               \/ (panel.call.fn = "fillRect" /\ panel.call.h = 1))) =>
            \A px \in panel.call.x..(panel.call.x + panel.call.w - 1) :
                InRequested(panel.call, px, panel.call.y) =>
                    PixelOf(buffer, panel.call.y * WIDTH + px) = 1)

====
